---------------------------- MODULE Spec2Model ----------------------------
(***************************************************************************)
(* A model of the video analytics streaming pipeline:                      *)
(*   schemas/models.py      VideoAnalyticsEvent construction               *)
(*   utils/data_quality.py  DataQualityChecker.validate_event              *)
(*   beam/transforms.py     ParseVideoEvent, EnrichEvent, FilterAnomalies, *)
(*                          WindowedAggregation                            *)
(*   beam/pipeline.py       the wiring of the stages and the windowing     *)
(*                                                                         *)
(* Conventions.  Floats in [0,1] are integers in hundredths (0.95 is 95);  *)
(* scores are integers in thousandths; times are integer seconds.  An      *)
(* Optional value is <<>> (None) or <<v>>.  A Python list is a sequence, a *)
(* PCollection is the sequence of the elements produced so far.            *)
(***************************************************************************)
EXTENDS Integers, Sequences, FiniteSets, TLC

VARIABLES
    counters,          \* MetricsCollector.counters, by metric name
    parsed_events,     \* output of "Parse Video Events"
    enriched_events,   \* output of "Enrich Events"
    filtered_events,   \* output of "Filter Anomalies"
    normal_events,     \* output of "Filter Normal Events"
    anomaly_events,    \* output of "Filter Anomaly Events"
    cursor,            \* per consuming transform: elements of its input consumed
    threshold,         \* config.anomaly_confidence_threshold (hundredths)
    panes,             \* GroupByKey state: (key, window) -> buffered elements
    closed,            \* (key, window) pairs whose pane has fired
    aggregations,      \* output of "Aggregate Windows"
    dropped,           \* elements a transform of the windowing segment lost
    last,              \* the last DoFn call: its input and what it yielded
    fed,               \* number of elements fed to the stage under study
    monitor,           \* DataQualityMonitor: quality_history, error_counts,
                       \* warning_counts, and the wall clock it reads
    workers,           \* threads inside MetricsCollector.increment_counter
    delivery           \* messages handed to MessageProcessor's callback

vars == <<counters, parsed_events, enriched_events, filtered_events,
          normal_events, anomaly_events, cursor, threshold, panes, closed,
          aggregations, dropped, last, fed, monitor, workers, delivery>>

-----------------------------------------------------------------------------
(* Optional values and small helpers *)

None == <<>>

Some(v) == <<v>>

IsNone(o) == o = <<>>

Val(o) == o[1]

Range(s) == {s[i] : i \in 1..Len(s)}

RECURSIVE SumSeq(_)
SumSeq(s) == IF s = <<>> THEN 0 ELSE s[1] + SumSeq(Tail(s))

RECURSIVE SelectSeqIdx(_, _)
\* the subsequence of s at the indices in I, in order
SelectSeqIdx(s, I) ==
    IF s = <<>> THEN <<>>
    ELSE LET n == Len(s)
             front == SelectSeqIdx(SubSeq(s, 1, n - 1), I)
         IN IF n \in I THEN Append(front, s[n]) ELSE front

-----------------------------------------------------------------------------
(* schemas/models.py *)

EventType == {"motion_detected", "person_detected", "vehicle_detected",
              "anomaly_detected", "performance_metric", "system_event"}

\* A JSON object as the producer sent it.  timestamp.form is the shape of the
\* string: "Z" (RFC3339 with a trailing Z), "naive" (no offset), "bad".
\* missing is TRUE when a required field is absent.
\* parse_timestamp: fromisoformat(v.replace('Z', '+00:00')) gives an
\* offset-aware datetime for the Z form, a naive one without offset, and
\* raises for anything else.  fromisoformat takes any character between date
\* and time, so the forms str(datetime) writes are read too: "space"
\* ("YYYY-MM-DD HH:MM:SS") and "space_offset" (the same followed by "+00:00").
parse_timestamp(v) ==
    CASE v.form \in {"Z", "space_offset"} -> Some([aware |-> TRUE,  t |-> v.t])
      [] v.form \in {"naive", "space"}    -> Some([aware |-> FALSE, t |-> v.t])
      [] OTHER                            -> None

\* processing_time: Optional[datetime], read by pydantic's own datetime
\* parser, which takes the same forms and reads a trailing Z as UTC
parse_datetime(v) ==
    CASE v.form \in {"Z", "space_offset"} -> Some([aware |-> TRUE,  t |-> v.t])
      [] v.form \in {"naive", "space"}    -> Some([aware |-> FALSE, t |-> v.t])
      [] OTHER                            -> None

\* ProcessingMetadata(**d) succeeds
MetadataOk(pm) ==
    \/ IsNone(pm)
    \/ IsNone(Val(pm).processing_time)
    \/ ~IsNone(parse_datetime(Val(Val(pm).processing_time)))

\* the constructed ProcessingMetadata (defined when MetadataOk(pm))
ProcessingMetadata(pm) ==
    IF IsNone(pm) \/ IsNone(Val(pm).processing_time) THEN pm
    ELSE Some([Val(pm) EXCEPT
                  !.processing_time = parse_datetime(Val(Val(pm).processing_time))])

\* Field(None, ge=0, le=1)
ConfidenceOk(c) == IsNone(c) \/ (Val(c) >= 0 /\ Val(c) <= 100)

\* BoundingBox: x, y ge=0; width, height gt=0
BoundingBoxOk(b) ==
    IsNone(b) \/ (Val(b).x >= 0 /\ Val(b).y >= 0 /\ Val(b).width > 0 /\ Val(b).height > 0)

\* VideoAnalyticsEvent(**event_data) succeeds
Constructs(p) ==
    /\ ~p.missing
    /\ p.event_type \in EventType
    /\ ~IsNone(parse_timestamp(p.timestamp))
    /\ ConfidenceOk(p.confidence)
    /\ BoundingBoxOk(p.bounding_box)
    /\ MetadataOk(p.processing_metadata)

\* the constructed event (defined when Constructs(p))
VideoAnalyticsEvent(p) ==
    [event_id            |-> p.event_id,
     timestamp           |-> Val(parse_timestamp(p.timestamp)),
     source_id           |-> p.source_id,
     camera_id           |-> p.camera_id,
     location            |-> p.location,
     event_type          |-> p.event_type,
     confidence          |-> p.confidence,
     bounding_box        |-> p.bounding_box,
     metrics             |-> p.metrics,
     attributes          |-> p.attributes,
     processing_metadata |-> ProcessingMetadata(p.processing_metadata)]

\* event.dict(): nested models become dicts, a datetime stays a datetime
\* object (pytype "datetime"), the enum is its string value.
EventDict(e) ==
    [event_id            |-> e.event_id,
     timestamp           |-> [pytype |-> "datetime", aware |-> e.timestamp.aware,
                              t |-> e.timestamp.t],
     source_id           |-> e.source_id,
     camera_id           |-> e.camera_id,
     location            |-> e.location,
     event_type          |-> e.event_type,
     confidence          |-> e.confidence,
     bounding_box        |-> e.bounding_box,
     metrics             |-> e.metrics,
     attributes          |-> e.attributes,
     processing_metadata |-> e.processing_metadata]

-----------------------------------------------------------------------------
(* utils/data_quality.py *)

\* str.strip() on the identifiers of the model: "" and " " strip to ""
Strip(s) == IF s \in {"", " "} THEN "" ELSE s

\* validate(instance=event_dict, schema=self.schema): the schema of
\* _load_json_schema wants event_id, source_id and camera_id to be non-empty
\* strings and timestamp to be of type "string".  jsonschema raises its
\* best-matching error, so at most one message is appended.
SchemaErrors(d) ==
    IF \/ d.event_id = ""
       \/ d.timestamp.pytype # "str"
       \/ d.source_id = ""
       \/ d.camera_id = ""
    THEN <<"Schema validation failed">>
    ELSE <<>>

\* Comparing an offset-aware datetime with a naive one raises TypeError.
Comparable(a, b) == a.aware = b.aware

\* _validate_timestamp with "except Exception: pass": a comparison that
\* raises ends the body and leaves no trace
ValidateTimestamp_Swallowed(event, now) ==
    LET nowdt == [aware |-> FALSE, t |-> now]
        ts == event.timestamp
        pm == event.processing_metadata
        e1 == IF ts.t > now + 300 THEN <<"Timestamp is too far in the future">> ELSE <<>>
        w1 == IF ts.t < now - 604800 THEN <<"Timestamp is quite old">> ELSE <<>>
        hasPt == ~IsNone(pm) /\ ~IsNone(Val(pm).processing_time)
        pt == Val(Val(pm).processing_time)
    IN  IF ~Comparable(ts, nowdt)
        THEN [errors |-> <<>>, warnings |-> <<>>, severity |-> 8, raised |-> FALSE]
        ELSE IF hasPt /\ ~Comparable(pt, ts)
        THEN [errors |-> e1, warnings |-> w1, severity |-> 8, raised |-> FALSE]
        ELSE [errors |-> e1,
              warnings |-> w1 \o (IF hasPt /\ pt.t < ts.t
                                  THEN <<"Processing time is before event timestamp">>
                                  ELSE <<>>),
              severity |-> 8, raised |-> FALSE]

\* _validate_timestamp; now is datetime.utcnow(), a naive datetime.  The body
\* runs in one try block: a TypeError ends it, keeping what was appended.
ValidateTimestamp(event, now) ==
    LET nowdt == [aware |-> FALSE, t |-> now]
        ts == event.timestamp
        pm == event.processing_metadata
        e1 == IF ts.t > now + 300 THEN <<"Timestamp is too far in the future">> ELSE <<>>
        w1 == IF ts.t < now - 604800 THEN <<"Timestamp is quite old">> ELSE <<>>
        hasPt == ~IsNone(pm) /\ ~IsNone(Val(pm).processing_time)
        pt == Val(Val(pm).processing_time)
    IN  IF ~Comparable(ts, nowdt)
        THEN [errors |-> <<"Timestamp validation error">>, warnings |-> <<>>, severity |-> 8, raised |-> FALSE]
        ELSE IF hasPt /\ ~Comparable(pt, ts)
        THEN [errors |-> e1 \o <<"Timestamp validation error">>, warnings |-> w1, severity |-> 8, raised |-> FALSE]
        ELSE [errors |-> e1,
              warnings |-> w1 \o (IF hasPt /\ pt.t < ts.t
                                  THEN <<"Processing time is before event timestamp">>
                                  ELSE <<>>),
              severity |-> 8, raised |-> FALSE]

\* _validate_confidence testing the truth value of the confidence instead of
\* "is not None": 0.0 is skipped like None
ValidateConfidence_Truthy(event) ==
    LET c == event.confidence
    IN  IF IsNone(c) \/ Val(c) = 0
        THEN [errors |-> <<>>, warnings |-> <<>>, severity |-> 5, raised |-> FALSE]
        ELSE [errors |-> IF ~(0 <= Val(c) /\ Val(c) <= 100)
                         THEN <<"Confidence score is out of range [0,1]">> ELSE <<>>,
              warnings |-> IF event.event_type \in {"person_detected", "vehicle_detected"}
                              /\ Val(c) < 30
                           THEN <<"Very low confidence for detection event">> ELSE <<>>,
              severity |-> 5, raised |-> FALSE]

\* _validate_confidence
ValidateConfidence(event) ==
    LET c == event.confidence
    IN  IF IsNone(c) THEN [errors |-> <<>>, warnings |-> <<>>, severity |-> 5, raised |-> FALSE]
        ELSE [errors |-> IF ~(0 <= Val(c) /\ Val(c) <= 100)
                         THEN <<"Confidence score is out of range [0,1]">> ELSE <<>>,
              warnings |-> IF event.event_type \in {"person_detected", "vehicle_detected"}
                              /\ Val(c) < 30
                           THEN <<"Very low confidence for detection event">> ELSE <<>>,
              severity |-> 5, raised |-> FALSE]

\* _validate_bounding_box
ValidateBoundingBox(event) ==
    LET b == event.bounding_box
    IN  IF IsNone(b) THEN [errors |-> <<>>, warnings |-> <<>>, severity |-> 6, raised |-> FALSE]
        ELSE LET bbox == Val(b)
             IN [errors |->
                    (IF bbox.x < 0 \/ bbox.y < 0
                     THEN <<"Bounding box has negative coordinates">> ELSE <<>>)
                    \o (IF bbox.width <= 0 \/ bbox.height <= 0
                        THEN <<"Bounding box has invalid dimensions">> ELSE <<>>),
                 warnings |->
                    (IF bbox.width < 10 \/ bbox.height < 10
                     THEN <<"Bounding box is very small">> ELSE <<>>)
                    \o (IF bbox.width > 3840 \/ bbox.height > 2160
                        THEN <<"Bounding box dimensions exceed typical video resolution">>
                        ELSE <<>>),
                 severity |-> 6, raised |-> FALSE]

\* _validate_event_consistency; metrics is None or the number of its entries
ValidateEventConsistency(event) ==
    [errors |->
        IF event.event_type = "performance_metric"
           /\ (IsNone(event.metrics) \/ Val(event.metrics) = 0)
        THEN <<"Performance metric event missing metrics data">> ELSE <<>>,
     warnings |->
        (IF event.event_type \in {"person_detected", "vehicle_detected", "motion_detected"}
            /\ IsNone(event.confidence)
         THEN <<"Detection event missing confidence score">> ELSE <<>>)
        \o (IF event.event_type \in {"person_detected", "vehicle_detected"}
               /\ IsNone(event.bounding_box)
            THEN <<"Visual detection event missing bounding box">> ELSE <<>>),
     severity |-> 7, raised |-> FALSE]

\* _validate_source_integrity; location is None or [latitude, longitude],
\* each Optional, in whole degrees
ValidateSourceIntegrity(event) ==
    LET loc == event.location
    IN [errors |->
          (IF Strip(event.source_id) = "" THEN <<"Empty video source ID">> ELSE <<>>)
          \o (IF Strip(event.camera_id) = "" THEN <<"Empty camera ID">> ELSE <<>>)
          \o (IF ~IsNone(loc) /\ ~IsNone(Val(loc).latitude)
                 /\ ~(-90 <= Val(Val(loc).latitude) /\ Val(Val(loc).latitude) <= 90)
              THEN <<"Invalid latitude value">> ELSE <<>>)
          \o (IF ~IsNone(loc) /\ ~IsNone(Val(loc).longitude)
                 /\ ~(-180 <= Val(Val(loc).longitude) /\ Val(Val(loc).longitude) <= 180)
              THEN <<"Invalid longitude value">> ELSE <<>>),
        warnings |-> <<>>,
        severity |-> 4, raised |-> FALSE]

\* _initialize_validation_rules, in the dict's order
ValidationRules(event, now) ==
    << ValidateTimestamp(event, now),
       ValidateConfidence(event),
       ValidateBoundingBox(event),
       ValidateEventConsistency(event),
       ValidateSourceIntegrity(event) >>

RECURSIVE ApplyRules_PerError(_, _)
\* the loop over the rules charging the severity once for every error and
\* every warning of a rule
ApplyRules_PerError(results, acc) ==
    IF results = <<>> THEN acc
    ELSE LET r == Head(results)
         IN ApplyRules_PerError(Tail(results),
               IF r.raised
               THEN [errors   |-> Append(acc.errors, "Validation rule failed"),
                     warnings |-> acc.warnings,
                     score    |-> acc.score - 100]
               ELSE [errors   |-> acc.errors \o r.errors,
                     warnings |-> acc.warnings \o r.warnings,
                     score    |-> acc.score - Len(r.errors) * r.severity * 20
                                            - Len(r.warnings) * r.severity * 10])

RECURSIVE ApplyRules(_, _)
\* the loop over the rules: acc is [errors, warnings, score].  A rule
\* function that raises is charged a flat 0.1 (lines 107-109); each of the
\* five rules catches its own exceptions, so none does.
ApplyRules(results, acc) ==
    IF results = <<>> THEN acc
    ELSE LET r == Head(results)
             s1 == IF r.errors # <<>> THEN acc.score - r.severity * 20 ELSE acc.score
             s2 == IF r.warnings # <<>> THEN s1 - r.severity * 10 ELSE s1
         IN ApplyRules(Tail(results),
               IF r.raised
               THEN [errors   |-> Append(acc.errors, "Validation rule failed"),
                     warnings |-> acc.warnings,
                     score    |-> acc.score - 100]
               ELSE [errors   |-> acc.errors \o r.errors,
                     warnings |-> acc.warnings \o r.warnings,
                     score    |-> s2])

\* validate_event that lowers the score on a schema failure without recording
\* the error
validate_event_SchemaNotRecorded(event, now) ==
    LET schema == SchemaErrors(EventDict(event))
        start == [errors   |-> <<>>,
                  warnings |-> <<>>,
                  score    |-> IF schema # <<>> THEN 1000 - 300 ELSE 1000]
        acc == ApplyRules(ValidationRules(event, now), start)
    IN [is_valid |-> Len(acc.errors) = 0,
        errors   |-> acc.errors,
        warnings |-> acc.warnings,
        score    |-> IF acc.score < 0 THEN 0 ELSE acc.score]

\* validate_event without the max(0.0, quality_score) of line 112
validate_event_NoClamp(event, now) ==
    LET schema == SchemaErrors(EventDict(event))
        start == [errors   |-> schema,
                  warnings |-> <<>>,
                  score    |-> IF schema # <<>> THEN 1000 - 300 ELSE 1000]
        acc == ApplyRules(ValidationRules(event, now), start)
    IN [is_valid |-> Len(acc.errors) = 0,
        errors   |-> acc.errors,
        warnings |-> acc.warnings,
        score    |-> acc.score]

\* validate_event: the ValidationResult (score in thousandths)
validate_event(event, now) ==
    LET schema == SchemaErrors(EventDict(event))
        start == [errors   |-> schema,
                  warnings |-> <<>>,
                  score    |-> IF schema # <<>> THEN 1000 - 300 ELSE 1000]
        acc == ApplyRules(ValidationRules(event, now), start)
    IN [is_valid |-> Len(acc.errors) = 0,
        errors   |-> acc.errors,
        warnings |-> acc.warnings,
        score    |-> IF acc.score < 0 THEN 0 ELSE acc.score]

-----------------------------------------------------------------------------
(* monitoring/metrics.py *)

CounterNames ==
    {"events_processed_success", "events_data_quality_failed", "events_parse_failed",
     "events_validation_failed", "events_processing_error", "events_enriched",
     "events_enrichment_failed", "anomalies_detected", "events_filtered",
     "events_filtering_failed", "windows_aggregated", "aggregation_failed"}

RECURSIVE IncrementAll(_, _)
\* increment_counter for each name of a sequence, in order
IncrementAll(c, names) ==
    IF names = <<>> THEN c
    ELSE IncrementAll([c EXCEPT ![Head(names)] = @ + 1], Tail(names))

-----------------------------------------------------------------------------
(* beam/transforms.py: ParseVideoEvent *)

\* What one DoFn.process call did: the elements it yielded and the counters
\* it incremented, in order.
Outcome(out, counted) == [out |-> out, counted |-> counted]

\* QualityGate without the is_valid test: a constructed event is stamped and
\* yielded whatever the checker said.
QualityGate_Ungated(event, quality_result, now) ==
    IF IsNone(event.processing_metadata)
    THEN Outcome(<<>>, <<"events_processing_error">>)
    ELSE Outcome(
           << [event EXCEPT !.processing_metadata =
                 Some([Val(@) EXCEPT
                         !.processing_time = Some([aware |-> FALSE, t |-> now]),
                         !.pipeline_version = Some("1.0.0")])] >>,
           <<"events_processed_success">>)

\* QualityGate with the success counter incremented before the event is
\* stamped: when the stamping raises, the handler counts a second outcome.
QualityGate_CountsBeforeStamp(event, quality_result, now) ==
    IF quality_result.is_valid
    THEN IF IsNone(event.processing_metadata)
         THEN Outcome(<<>>, <<"events_processed_success", "events_processing_error">>)
         ELSE Outcome(
                << [event EXCEPT !.processing_metadata =
                      Some([Val(@) EXCEPT
                              !.processing_time = Some([aware |-> FALSE, t |-> now]),
                              !.pipeline_version = Some("1.0.0")])] >>,
                <<"events_processed_success">>)
    ELSE Outcome(<<>>, <<"events_data_quality_failed">>)

\* Lines 52-67, with the handler of lines 77-79: what process does with a
\* constructed event once the checker has returned quality_result.
\* "if not event.processing_metadata: event.processing_metadata = {}" leaves
\* a plain dict in the field, and the assignment of .processing_time to a
\* dict raises AttributeError, which "except Exception" catches.
QualityGate(event, quality_result, now) ==
    IF quality_result.is_valid
    THEN IF IsNone(event.processing_metadata)
         THEN Outcome(<<>>, <<"events_processing_error">>)
         ELSE Outcome(
                << [event EXCEPT !.processing_metadata =
                      Some([Val(@) EXCEPT
                              !.processing_time = Some([aware |-> FALSE, t |-> now]),
                              !.pipeline_version = Some("1.0.0")])] >>,
                <<"events_processed_success">>)
    ELSE Outcome(<<>>, <<"events_data_quality_failed">>)

\* ParseVideoEvent.process without its "except ValidationError" clause: a
\* construction failure falls through to "except Exception".
ParseVideoEventProcess_NoSchemaHandler(element, now) ==
    CASE element.kind = "undecodable" -> Outcome(<<>>, <<"events_processing_error">>)
      [] element.kind = "badjson"     -> Outcome(<<>>, <<"events_parse_failed">>)
      [] element.kind = "nonobject"   -> Outcome(<<>>, <<"events_processing_error">>)
      [] OTHER ->
           IF ~Constructs(Val(element.payload))
           THEN Outcome(<<>>, <<"events_processing_error">>)
           ELSE LET event == VideoAnalyticsEvent(Val(element.payload))
                IN QualityGate(event, validate_event(event, now), now)

\* ParseVideoEvent.process.  element.kind is what the bytes are:
\*   "undecodable"  not UTF-8: UnicodeDecodeError, caught by "except Exception"
\*   "badjson"      not JSON: JSONDecodeError
\*   "nonobject"    a JSON value that is no object: ** raises TypeError
\*   "object"       a JSON object, element.payload
ParseVideoEventProcess(element, now) ==
    CASE element.kind = "undecodable" -> Outcome(<<>>, <<"events_processing_error">>)
      [] element.kind = "badjson"     -> Outcome(<<>>, <<"events_parse_failed">>)
      [] element.kind = "nonobject"   -> Outcome(<<>>, <<"events_processing_error">>)
      [] OTHER ->
           IF ~Constructs(Val(element.payload))
           THEN Outcome(<<>>, <<"events_validation_failed">>)
           ELSE LET event == VideoAnalyticsEvent(Val(element.payload))
                IN QualityGate(event, validate_event(event, now), now)

\* the ValidationResult process obtained for element, if it got that far
VerdictOf(element, now) ==
    IF element.kind = "object" /\ Constructs(Val(element.payload))
    THEN Some(validate_event(VideoAnalyticsEvent(Val(element.payload)), now))
    ELSE None

-----------------------------------------------------------------------------
(* Bounds and inputs *)

\* elements fed to the stage under study in one behaviour
MaxFeed == 2

\* config/settings.py: anomaly_confidence_threshold = 0.95
DefaultThreshold == 95

\* config/settings.py: window_size_seconds = 60
WindowSize == 60

\* the wall clock read by datetime.utcnow()
Clock == {1000000}

NoMetadata == [pipeline_version |-> None, processing_time |-> None, model_version |-> None]

BasePayload ==
    [missing             |-> FALSE,
     event_id            |-> "e1",
     timestamp           |-> [form |-> "naive", t |-> 999990],
     source_id           |-> "A",
     camera_id           |-> "cam_1",
     location            |-> None,
     event_type          |-> "person_detected",
     confidence          |-> Some(80),
     bounding_box        |-> Some([x |-> 10, y |-> 20, width |-> 100, height |-> 200]),
     metrics             |-> None,
     attributes          |-> None,
     processing_metadata |-> None]

\* JSON objects a producer may send: well-formed ones in both timestamp
\* forms, with and without processing_metadata, and ones that fail
\* construction (unknown event_type, confidence 1.5, bad timestamp, a
\* missing field, a zero-width bounding box, a negative x), and ones with a
\* location, in range and out of range
Payloads ==
    {[BasePayload EXCEPT !.event_type = ty, !.confidence = c,
                         !.processing_metadata = pm, !.timestamp.form = f] :
        ty \in EventType \cup {"unknown_type"},
        c \in {None, Some(10), Some(96), Some(150)},
        pm \in {None, Some(NoMetadata)},
        f \in {"naive", "Z", "bad"}}
    \cup {[BasePayload EXCEPT !.missing = TRUE],
          [BasePayload EXCEPT !.source_id = ""],
          [BasePayload EXCEPT !.timestamp.t = 1000400],
          [BasePayload EXCEPT !.event_type = "performance_metric", !.metrics = Some(2)],
          [BasePayload EXCEPT !.bounding_box =
              Some([x |-> 10, y |-> 20, width |-> 0, height |-> 200])],
          [BasePayload EXCEPT !.bounding_box =
              Some([x |-> -1, y |-> 20, width |-> 100, height |-> 200])],
          [BasePayload EXCEPT !.location =
              Some([latitude |-> Some(40), longitude |-> Some(-74)])],
          [BasePayload EXCEPT !.location =
              Some([latitude |-> Some(100), longitude |-> Some(-74)])],
          [BasePayload EXCEPT !.location =
              Some([latitude |-> Some(40), longitude |-> Some(-200)])]}

\* the messages read from the subscription
RawMessages ==
    {[kind |-> k, payload |-> None] : k \in {"undecodable", "badjson", "nonobject"}}
    \cup {[kind |-> "object", payload |-> Some(p)] : p \in Payloads}

\* every event a message can construct
ConstructedEvents == {VideoAnalyticsEvent(p) : p \in {q \in Payloads : Constructs(q)}}

\* results a checker may hand to the gate
ValidationResults ==
    {[is_valid |-> TRUE,  errors |-> <<>>, warnings |-> <<>>, score |-> 1000],
     [is_valid |-> TRUE,  errors |-> <<>>,
      warnings |-> <<"Very low confidence for detection event">>, score |-> 950],
     [is_valid |-> FALSE, errors |-> <<"Empty camera ID">>, warnings |-> <<>>,
      score |-> 920]}

-----------------------------------------------------------------------------
(* The state after construction *)

\* the (source_id, window start) pairs of the model's events
PaneIds == {<<"A", 0>>, <<"A", 60>>, <<"B", 0>>}

NoCall == [op |-> "none", input |-> None, verdict |-> None, out |-> <<>>, counted |-> <<>>]

\* DataQualityMonitor.__init__: nothing recorded.  error_counts and
\* warning_counts are dicts, kept as sequences of [key, n] in insertion order;
\* utcnow is the wall clock in minutes; inputs keeps the results that were
\* handed over, for stating properties only: no action reads it.
EmptyMonitor ==
    [quality_history |-> <<>>, error_counts |-> <<>>, warning_counts |-> <<>>,
     utcnow |-> 0, inputs |-> <<>>]

\* no DoFn instance has been set up: no thread and no MetricsCollector yet
NoWorkers == [threads |-> <<>>, collectors |-> <<>>]

\* everything but the record of the last call
InitPipeline(th) ==
    /\ counters = [n \in CounterNames |-> 0]
    /\ parsed_events = <<>>
    /\ enriched_events = <<>>
    /\ filtered_events = <<>>
    /\ normal_events = <<>>
    /\ anomaly_events = <<>>
    /\ cursor = [t \in {"enrich", "classify", "normal", "anomaly", "window"} |-> 0]
    /\ threshold = th
    /\ panes = [id \in PaneIds |-> <<>>]
    /\ closed = {}
    /\ aggregations = <<>>
    /\ dropped = <<>>
    /\ fed = 0
    /\ monitor = EmptyMonitor
    /\ workers = NoWorkers
    /\ delivery = <<>>

InitWith(th) ==
    /\ InitPipeline(th)
    /\ last = NoCall

Init == InitWith(DefaultThreshold)

-----------------------------------------------------------------------------
(* "Parse Video Events": beam.ParDo(ParseVideoEvent()) on one message *)

Parse ==
    /\ fed < MaxFeed
    /\ \E element \in RawMessages, now \in Clock :
         LET o == ParseVideoEventProcess(element, now)
         IN /\ counters' = IncrementAll(counters, o.counted)
            /\ parsed_events' = parsed_events \o o.out
            /\ last' = [op |-> "parse", input |-> Some(element),
                        verdict |-> VerdictOf(element, now),
                        out |-> o.out, counted |-> o.counted]
    /\ fed' = fed + 1
    /\ UNCHANGED <<enriched_events, filtered_events, normal_events, anomaly_events,
                   cursor, threshold, panes, closed, aggregations, dropped,
                   monitor, workers, delivery>>

\* The gate of lines 52-67 on a constructed event, for any result the
\* checker may return.
Gate ==
    /\ fed < MaxFeed
    /\ \E event \in ConstructedEvents, r \in ValidationResults, now \in Clock :
         LET o == QualityGate(event, r, now)
         IN /\ counters' = IncrementAll(counters, o.counted)
            /\ parsed_events' = parsed_events \o o.out
            /\ last' = [op |-> "gate", input |-> Some(event), verdict |-> Some(r),
                        out |-> o.out, counted |-> o.counted]
    /\ fed' = fed + 1
    /\ UNCHANGED <<enriched_events, filtered_events, normal_events, anomaly_events,
                   cursor, threshold, panes, closed, aggregations, dropped,
                   monitor, workers, delivery>>

Next == Parse

\* the parse stage as the pipeline runs it, with DataQualityChecker
Spec == Init /\ [][Next]_vars

NextGate == Gate

\* the gate of the parse stage against any ValidationResult
SpecGate == Init /\ [][NextGate]_vars

-----------------------------------------------------------------------------
(* Claims about the parse stage *)

\* the event has been stamped by the processor
Stamped(e) ==
    /\ ~IsNone(e.processing_metadata)
    /\ Val(e.processing_metadata).pipeline_version = Some("1.0.0")
    /\ ~IsNone(Val(e.processing_metadata).processing_time)

C2_InvalidEventDropped ==
    /\ (last.op = "parse" /\ ~IsNone(last.verdict) /\ ~Val(last.verdict).is_valid) =>
          /\ last.out = <<>>
          /\ last.counted = <<"events_data_quality_failed">>
    /\ Len(parsed_events) = counters["events_processed_success"]
    /\ \A i \in 1..Len(parsed_events) : Stamped(parsed_events[i])

\* C2 witness: two constructed events failed validation and were dropped
C2_Witness ==
    /\ last.op = "parse"
    /\ ~IsNone(last.verdict)
    /\ ~Val(last.verdict).is_valid
    /\ counters["events_data_quality_failed"] = 2
    /\ parsed_events = <<>>

\* the message is malformed: not decodable, not JSON, or a JSON object that
\* fails construction
Malformed(element) ==
    \/ element.kind \in {"undecodable", "badjson"}
    \/ element.kind = "object" /\ ~Constructs(Val(element.payload))

-----------------------------------------------------------------------------
(* beam/transforms.py: EnrichEvent, FilterAnomalies; beam/pipeline.py: the
   two branch filters *)

\* "if not event.data.attributes: event.data.attributes = {}", then
\* attributes[name] = True; attributes is None or the set of names set
AddAttribute(event, name) ==
    [event EXCEPT !.attributes =
        IF IsNone(@) THEN Some({name}) ELSE Some(Val(@) \cup {name})]

\* a Python float used as a condition: None and 0.0 are falsy
Truthy(c) == ~IsNone(c) /\ Val(c) # 0

\* where the try body of EnrichEvent.process raises, if it does: nowhere,
\* in the confidence block (lines 104-108) or in the location block (lines
\* 111-114).  No event the parse stage yields makes it raise.
EnrichFaults == {"none", "confidence", "location"}

\* EnrichEvent.process whose handler does not yield
EnrichEventProcess_DropOnFailure(event, fault) ==
    LET e1 == IF /\ event.event_type \in {"person_detected", "vehicle_detected"}
                 /\ Truthy(event.confidence)
                 /\ Val(event.confidence) > 90
              THEN AddAttribute(event, "high_confidence")
              ELSE event
        e2 == IF ~IsNone(e1.location) THEN AddAttribute(e1, "has_location") ELSE e1
    IN CASE fault = "confidence" -> Outcome(<<>>, <<"events_enrichment_failed">>)
         [] fault = "location"   -> Outcome(<<>>, <<"events_enrichment_failed">>)
         [] OTHER                -> Outcome(<<e2>>, <<"events_enriched">>)

\* EnrichEvent.process marking every person or vehicle event that carries a
\* confidence, whatever its value
EnrichEventProcess_AnyConfidence(event, fault) ==
    LET e1 == IF /\ event.event_type \in {"person_detected", "vehicle_detected"}
                 /\ Truthy(event.confidence)
              THEN AddAttribute(event, "high_confidence")
              ELSE event
        e2 == IF ~IsNone(e1.location) THEN AddAttribute(e1, "has_location") ELSE e1
    IN CASE fault = "confidence" -> Outcome(<<event>>, <<"events_enrichment_failed">>)
         [] fault = "location"   -> Outcome(<<e1>>, <<"events_enrichment_failed">>)
         [] OTHER                -> Outcome(<<e2>>, <<"events_enriched">>)

\* EnrichEvent.process.  The event is changed in place, so the handler of
\* lines 119-123 yields it as the try body left it.
EnrichEventProcess(event, fault) ==
    LET e1 == IF /\ event.event_type \in {"person_detected", "vehicle_detected"}
                 /\ Truthy(event.confidence)
                 /\ Val(event.confidence) > 90
              THEN AddAttribute(event, "high_confidence")
              ELSE event
        e2 == IF ~IsNone(e1.location) THEN AddAttribute(e1, "has_location") ELSE e1
    IN CASE fault = "confidence" -> Outcome(<<event>>, <<"events_enrichment_failed">>)
         [] fault = "location"   -> Outcome(<<e1>>, <<"events_enrichment_failed">>)
         [] OTHER                -> Outcome(<<e2>>, <<"events_enriched">>)

\* FilterAnomalies.process with a >= comparison against the threshold
FilterAnomaliesProcess_AtThreshold(event, confidence_threshold, now) ==
    LET is_anomaly ==
            \/ event.event_type = "anomaly_detected"
            \/ /\ Truthy(event.confidence)
               /\ Val(event.confidence) >= confidence_threshold
               /\ event.event_type \in {"person_detected", "vehicle_detected"}
    IN Outcome(<< [event               |-> EventDict(event),
                   is_anomaly          |-> is_anomaly,
                   processing_priority |-> IF is_anomaly THEN "high" ELSE "normal",
                   processed_at        |-> now] >>,
               IF is_anomaly THEN <<"anomalies_detected", "events_filtered">>
                             ELSE <<"events_filtered">>)

\* FilterAnomalies.process reading the confidence before the event type: an
\* event without confidence is never an anomaly
FilterAnomaliesProcess_NeedsConfidence(event, confidence_threshold, now) ==
    LET is_anomaly ==
            /\ Truthy(event.confidence)
            /\ \/ event.event_type = "anomaly_detected"
               \/ /\ Val(event.confidence) > confidence_threshold
                  /\ event.event_type \in {"person_detected", "vehicle_detected"}
    IN Outcome(<< [event               |-> EventDict(event),
                   is_anomaly          |-> is_anomaly,
                   processing_priority |-> IF is_anomaly THEN "high" ELSE "normal",
                   processed_at        |-> now] >>,
               IF is_anomaly THEN <<"anomalies_detected", "events_filtered">>
                             ELSE <<"events_filtered">>)

\* FilterAnomalies.process
FilterAnomaliesProcess(event, confidence_threshold, now) ==
    LET is_anomaly ==
            \/ event.event_type = "anomaly_detected"
            \/ /\ Truthy(event.confidence)
               /\ Val(event.confidence) > confidence_threshold
               /\ event.event_type \in {"person_detected", "vehicle_detected"}
    IN Outcome(<< [event               |-> EventDict(event),
                   is_anomaly          |-> is_anomaly,
                   processing_priority |-> IF is_anomaly THEN "high" ELSE "normal",
                   processed_at        |-> now] >>,
               IF is_anomaly THEN <<"anomalies_detected", "events_filtered">>
                             ELSE <<"events_filtered">>)

\* a normal-branch filter that lets every record through
NormalBranch_All(x) == TRUE

\* "Filter Normal Events": lambda x: not x["is_anomaly"]
NormalBranch(x) == ~x.is_anomaly

\* "Filter Anomaly Events": lambda x: x["is_anomaly"]
AnomalyBranch(x) == x.is_anomaly

\* elements fed to the enrich stage in one behaviour
MaxClassify == 1

\* thresholds the pipeline may be configured with (hundredths)
Thresholds == {DefaultThreshold, 50, -10}

\* events the enrich stage may receive: every event type with confidence
\* absent, 0.0, 0.80, 0.95 and 0.96, one event with a location, and events
\* whose producer supplied data.attributes
ClassifyEvents ==
    {[VideoAnalyticsEvent(BasePayload) EXCEPT !.event_type = ty, !.confidence = c] :
        ty \in EventType, c \in {None, Some(0), Some(80), Some(95), Some(96)}}
    \cup {[VideoAnalyticsEvent(BasePayload) EXCEPT
              !.location = Some([latitude |-> Some(40), longitude |-> Some(-74)])],
          [VideoAnalyticsEvent(BasePayload) EXCEPT
              !.confidence = Some(96), !.attributes = Some({"zone"})],
          [VideoAnalyticsEvent(BasePayload) EXCEPT
              !.event_type = "system_event", !.attributes = Some({"high_confidence"})]}

InitClassify == \E th \in Thresholds : InitWith(th)

\* "Enrich Events": beam.ParDo(EnrichEvent()) on one event
Enrich ==
    /\ fed < MaxClassify
    /\ \E event \in ClassifyEvents, fault \in EnrichFaults :
         LET o == EnrichEventProcess(event, fault)
         IN /\ counters' = IncrementAll(counters, o.counted)
            /\ enriched_events' = enriched_events \o o.out
            /\ last' = [op |-> "enrich", input |-> Some(event), verdict |-> None,
                        out |-> o.out, counted |-> o.counted]
    /\ fed' = fed + 1
    /\ UNCHANGED <<parsed_events, filtered_events, normal_events, anomaly_events,
                   cursor, threshold, panes, closed, aggregations, dropped,
                   monitor, workers, delivery>>

\* "Filter Anomalies": beam.ParDo(FilterAnomalies(threshold)) on the next
\* enriched event
Classify ==
    /\ cursor["classify"] < Len(enriched_events)
    /\ \E now \in Clock :
         LET event == enriched_events[cursor["classify"] + 1]
             o == FilterAnomaliesProcess(event, threshold, now)
         IN /\ counters' = IncrementAll(counters, o.counted)
            /\ filtered_events' = filtered_events \o o.out
            /\ last' = [op |-> "classify", input |-> Some(event), verdict |-> None,
                        out |-> o.out, counted |-> o.counted]
    /\ cursor' = [cursor EXCEPT !["classify"] = @ + 1]
    /\ UNCHANGED <<parsed_events, enriched_events, normal_events, anomaly_events,
                   threshold, panes, closed, aggregations, dropped, fed,
                   monitor, workers, delivery>>

\* "Filter Normal Events" on the next classified record
FilterNormal ==
    /\ cursor["normal"] < Len(filtered_events)
    /\ LET x == filtered_events[cursor["normal"] + 1]
       IN normal_events' = IF NormalBranch(x) THEN Append(normal_events, x)
                           ELSE normal_events
    /\ cursor' = [cursor EXCEPT !["normal"] = @ + 1]
    /\ UNCHANGED <<counters, parsed_events, enriched_events, filtered_events,
                   anomaly_events, threshold, panes, closed, aggregations, dropped,
                   last, fed,
                   monitor, workers, delivery>>

\* "Filter Anomaly Events" on the next classified record
FilterAnomaly ==
    /\ cursor["anomaly"] < Len(filtered_events)
    /\ LET x == filtered_events[cursor["anomaly"] + 1]
       IN anomaly_events' = IF AnomalyBranch(x) THEN Append(anomaly_events, x)
                            ELSE anomaly_events
    /\ cursor' = [cursor EXCEPT !["anomaly"] = @ + 1]
    /\ UNCHANGED <<counters, parsed_events, enriched_events, filtered_events,
                   normal_events, threshold, panes, closed, aggregations, dropped,
                   last, fed,
                   monitor, workers, delivery>>

NextClassify == Enrich \/ Classify \/ FilterNormal \/ FilterAnomaly

\* enrichment, classification and the two branches, on any event and for
\* each configured threshold
SpecClassify == InitClassify /\ [][NextClassify]_vars

-----------------------------------------------------------------------------
(* Claims about classification and routing *)

\* the detection family of the specification
DetectionFamily == {"motion_detected", "person_detected", "vehicle_detected"}

\* the first n elements of a PCollection
Prefix(s, n) == SubSeq(s, 1, n)

\* C4 as stated: the classifier sets is_anomaly exactly when event_type is
\* anomaly_detected, or confidence is strictly greater than the threshold and
\* event_type is motion_detected, person_detected or vehicle_detected.
C4_AnomalyIffDetectionFamily ==
    last.op = "classify" =>
        LET e == Val(last.input)
        IN last.out[1].is_anomaly <=>
              \/ e.event_type = "anomaly_detected"
              \/ /\ ~IsNone(e.confidence)
                 /\ Val(e.confidence) > threshold
                 /\ e.event_type \in DetectionFamily

\* C4 amended: the classifier yields one record, with is_anomaly exactly when
\* event_type is anomaly_detected, or confidence is present, not 0.0 and
\* strictly greater than the threshold and event_type is person_detected or
\* vehicle_detected.
C4_AnomalyIffPersonOrVehicle ==
    last.op = "classify" =>
        LET e == Val(last.input)
        IN /\ Len(last.out) = 1
           /\ last.out[1].is_anomaly <=>
                 \/ e.event_type = "anomaly_detected"
                 \/ /\ ~IsNone(e.confidence)
                    /\ Val(e.confidence) # 0
                    /\ Val(e.confidence) > threshold
                    /\ e.event_type \in {"person_detected", "vehicle_detected"}

\* C4 witness: at threshold 0.95 a person_detected event with confidence
\* exactly 0.95 was classified as not anomalous
C4_Witness ==
    /\ last.op = "classify"
    /\ threshold = 95
    /\ Val(last.input).event_type = "person_detected"
    /\ Val(last.input).confidence = Some(95)
    /\ ~last.out[1].is_anomaly

\* C5: an anomaly_detected event is routed to the anomaly branch whatever its
\* confidence; at threshold 0.95 a person_detected event with confidence 0.96
\* is routed to the anomaly branch and one with confidence 0.80 to the
\* normal branch.
C5_RoutingExamples ==
    \A i \in 1..Len(filtered_events) :
        LET x == filtered_events[i]
            anomalous ==
                \/ x.event.event_type = "anomaly_detected"
                \/ /\ threshold = 95
                   /\ x.event.event_type = "person_detected"
                   /\ x.event.confidence = Some(96)
            ordinary ==
                /\ threshold = 95
                /\ x.event.event_type = "person_detected"
                /\ x.event.confidence = Some(80)
        IN /\ (anomalous /\ i <= cursor["anomaly"]) => x \in Range(anomaly_events)
           /\ (anomalous /\ i <= cursor["normal"]) => x \notin Range(normal_events)
           /\ (ordinary /\ i <= cursor["normal"]) => x \in Range(normal_events)
           /\ (ordinary /\ i <= cursor["anomaly"]) => x \notin Range(anomaly_events)

\* C5 witness: an anomaly_detected event without confidence has passed both
\* filters and sits in the anomaly branch only
C5_Witness ==
    /\ cursor["normal"] = 1
    /\ cursor["anomaly"] = 1
    /\ filtered_events[1].event.event_type = "anomaly_detected"
    /\ filtered_events[1].event.confidence = None
    /\ anomaly_events = filtered_events
    /\ normal_events = <<>>

\* C6: every classified record has processing_priority "high" exactly when
\* is_anomaly is true and "normal" otherwise, and goes to exactly one branch:
\* the anomaly branch holds the anomalous records its filter has seen, the
\* normal branch the others its filter has seen.
C6_PriorityAndOneBranch ==
    /\ \A i \in 1..Len(filtered_events) :
          filtered_events[i].processing_priority =
              IF filtered_events[i].is_anomaly THEN "high" ELSE "normal"
    /\ anomaly_events =
          SelectSeq(Prefix(filtered_events, cursor["anomaly"]), LAMBDA x : x.is_anomaly)
    /\ normal_events =
          SelectSeq(Prefix(filtered_events, cursor["normal"]), LAMBDA x : ~x.is_anomaly)

\* C6 witness: a normal-priority record has passed both filters and sits in
\* the normal branch only
C6_Witness ==
    /\ cursor["normal"] = 1
    /\ cursor["anomaly"] = 1
    /\ filtered_events[1].processing_priority = "normal"
    /\ normal_events = filtered_events
    /\ anomaly_events = <<>>

-----------------------------------------------------------------------------
(* beam/pipeline.py: the windowing segment; beam/transforms.py:
   WindowedAggregation *)

\* Timestamp.from_rfc3339(x["event"]["timestamp"]): the seconds of an RFC3339
\* string; anything that is not a string (a datetime object) makes it raise,
\* which is None here.
from_rfc3339(v) == IF v.pytype = "str" THEN Some(v.t) ELSE None

\* window.FixedWindows(size): the start of the window holding timestamp t
FixedWindowStart(t, size) == t - (t % size)

\* lambda x: (x["event"]["video_source"]["source_id"], x)
KeyBySource(x) == x.event.source_id

\* GroupByKey under the default trigger with no allowed lateness never takes
\* an element into a pane that has fired; this one always does
IsLate_Never(id, fired) == FALSE

\* GroupByKey under the default trigger with no allowed lateness: an element
\* whose (key, window) pane has fired is late and the runner drops it
IsLate(id, fired) == id \in fired

RECURSIVE ConfidenceScores_UntilMissing(_)
\* the loop over events with "break" in place of the skip: the scores of the
\* events before the first one that carries no confidence
ConfidenceScores_UntilMissing(events_list) ==
    IF events_list = <<>> \/ ~Truthy(Head(events_list).event.confidence)
        THEN <<>>
        ELSE <<Val(Head(events_list).event.confidence)>>
                 \o ConfidenceScores_UntilMissing(Tail(events_list))

\* the confidence values process collects: line 210 tests the truth value of
\* .get("confidence"), so None and 0.0 are both skipped
ConfidenceScores(events_list) ==
    LET I == {i \in 1..Len(events_list) : Truthy(events_list[i].event.confidence)}
    IN [j \in 1..Len(SelectSeqIdx(events_list, I)) |->
          Val(SelectSeqIdx(events_list, I)[j].event.confidence)]

\* event_types: the count of each event_type seen
EventTypeCounts(events_list) ==
    [ty \in {events_list[i].event.event_type : i \in 1..Len(events_list)} |->
        Cardinality({i \in 1..Len(events_list) : events_list[i].event.event_type = ty})]

\* The confidences of the model's aggregated events as Python floats, written
\* as repr() writes them: the double nearest to the decimal.
FloatOf == (10 :> "0.1") @@ (20 :> "0.2") @@ (30 :> "0.3") @@ (80 :> "0.8") @@ (100 :> "1.0")

\* a + b in IEEE-754 double arithmetic, round to nearest even, as Python
\* computes it, for every running total that up to four of the confidences
\* above (0.1, 0.2, 0.3 together, and 0.8, 1.0 together) can reach from 0
FloatAdd ==
    (<<"0", "0.1">> :> "0.1")
    @@ (<<"0", "0.2">> :> "0.2")
    @@ (<<"0", "0.3">> :> "0.3")
    @@ (<<"0", "0.8">> :> "0.8")
    @@ (<<"0", "1.0">> :> "1.0")
    @@ (<<"0.1", "0.1">> :> "0.2")
    @@ (<<"0.1", "0.2">> :> "0.30000000000000004")
    @@ (<<"0.1", "0.3">> :> "0.4")
    @@ (<<"0.2", "0.1">> :> "0.30000000000000004")
    @@ (<<"0.2", "0.2">> :> "0.4")
    @@ (<<"0.2", "0.3">> :> "0.5")
    @@ (<<"0.3", "0.1">> :> "0.4")
    @@ (<<"0.3", "0.2">> :> "0.5")
    @@ (<<"0.3", "0.3">> :> "0.6")
    @@ (<<"0.30000000000000004", "0.1">> :> "0.4")
    @@ (<<"0.30000000000000004", "0.2">> :> "0.5")
    @@ (<<"0.30000000000000004", "0.3">> :> "0.6000000000000001")
    @@ (<<"0.4", "0.1">> :> "0.5")
    @@ (<<"0.4", "0.2">> :> "0.6000000000000001")
    @@ (<<"0.4", "0.3">> :> "0.7")
    @@ (<<"0.5", "0.1">> :> "0.6")
    @@ (<<"0.5", "0.2">> :> "0.7")
    @@ (<<"0.5", "0.3">> :> "0.8")
    @@ (<<"0.6", "0.1">> :> "0.7")
    @@ (<<"0.6", "0.2">> :> "0.8")
    @@ (<<"0.6", "0.3">> :> "0.8999999999999999")
    @@ (<<"0.6000000000000001", "0.1">> :> "0.7000000000000001")
    @@ (<<"0.6000000000000001", "0.2">> :> "0.8")
    @@ (<<"0.6000000000000001", "0.3">> :> "0.9000000000000001")
    @@ (<<"0.7", "0.1">> :> "0.7999999999999999")
    @@ (<<"0.7", "0.2">> :> "0.8999999999999999")
    @@ (<<"0.7", "0.3">> :> "1.0")
    @@ (<<"0.8", "0.1">> :> "0.9")
    @@ (<<"0.8", "0.2">> :> "1.0")
    @@ (<<"0.8", "0.3">> :> "1.1")
    @@ (<<"0.8", "0.8">> :> "1.6")
    @@ (<<"0.8", "1.0">> :> "1.8")
    @@ (<<"0.8999999999999999", "0.1">> :> "0.9999999999999999")
    @@ (<<"0.8999999999999999", "0.2">> :> "1.0999999999999999")
    @@ (<<"0.8999999999999999", "0.3">> :> "1.2")
    @@ (<<"1.0", "0.8">> :> "1.8")
    @@ (<<"1.0", "1.0">> :> "2.0")
    @@ (<<"1.6", "0.8">> :> "2.4000000000000004")
    @@ (<<"1.6", "1.0">> :> "2.6")
    @@ (<<"1.8", "0.8">> :> "2.6")
    @@ (<<"1.8", "1.0">> :> "2.8")
    @@ (<<"2.0", "0.8">> :> "2.8")
    @@ (<<"2.0", "1.0">> :> "3.0")
    @@ (<<"2.4000000000000004", "0.8">> :> "3.2")
    @@ (<<"2.4000000000000004", "1.0">> :> "3.4000000000000004")
    @@ (<<"2.6", "0.8">> :> "3.4000000000000004")
    @@ (<<"2.6", "1.0">> :> "3.6")
    @@ (<<"2.8", "0.8">> :> "3.5999999999999996")
    @@ (<<"2.8", "1.0">> :> "3.8")
    @@ (<<"3.0", "0.8">> :> "3.8")
    @@ (<<"3.0", "1.0">> :> "4.0")

\* total / n in double arithmetic, for the totals above
FloatDiv ==
    (<<"0.1", 1>> :> "0.1")
    @@ (<<"0.2", 1>> :> "0.2")
    @@ (<<"0.2", 2>> :> "0.1")
    @@ (<<"0.3", 1>> :> "0.3")
    @@ (<<"0.30000000000000004", 2>> :> "0.15000000000000002")
    @@ (<<"0.30000000000000004", 3>> :> "0.10000000000000002")
    @@ (<<"0.4", 2>> :> "0.2")
    @@ (<<"0.4", 3>> :> "0.13333333333333333")
    @@ (<<"0.4", 4>> :> "0.1")
    @@ (<<"0.5", 2>> :> "0.25")
    @@ (<<"0.5", 3>> :> "0.16666666666666666")
    @@ (<<"0.5", 4>> :> "0.125")
    @@ (<<"0.6", 2>> :> "0.3")
    @@ (<<"0.6", 3>> :> "0.19999999999999998")
    @@ (<<"0.6", 4>> :> "0.15")
    @@ (<<"0.6000000000000001", 3>> :> "0.20000000000000004")
    @@ (<<"0.6000000000000001", 4>> :> "0.15000000000000002")
    @@ (<<"0.7", 3>> :> "0.2333333333333333")
    @@ (<<"0.7", 4>> :> "0.175")
    @@ (<<"0.7000000000000001", 4>> :> "0.17500000000000002")
    @@ (<<"0.7999999999999999", 4>> :> "0.19999999999999998")
    @@ (<<"0.8", 1>> :> "0.8")
    @@ (<<"0.8", 3>> :> "0.26666666666666666")
    @@ (<<"0.8", 4>> :> "0.2")
    @@ (<<"0.8999999999999999", 3>> :> "0.3")
    @@ (<<"0.8999999999999999", 4>> :> "0.22499999999999998")
    @@ (<<"0.9", 4>> :> "0.225")
    @@ (<<"0.9000000000000001", 4>> :> "0.22500000000000003")
    @@ (<<"0.9999999999999999", 4>> :> "0.24999999999999997")
    @@ (<<"1.0", 1>> :> "1.0")
    @@ (<<"1.0", 4>> :> "0.25")
    @@ (<<"1.0999999999999999", 4>> :> "0.27499999999999997")
    @@ (<<"1.1", 4>> :> "0.275")
    @@ (<<"1.2", 4>> :> "0.3")
    @@ (<<"1.6", 2>> :> "0.8")
    @@ (<<"1.8", 2>> :> "0.9")
    @@ (<<"2.0", 2>> :> "1.0")
    @@ (<<"2.4000000000000004", 3>> :> "0.8000000000000002")
    @@ (<<"2.6", 3>> :> "0.8666666666666667")
    @@ (<<"2.8", 3>> :> "0.9333333333333332")
    @@ (<<"3.0", 3>> :> "1.0")
    @@ (<<"3.2", 4>> :> "0.8")
    @@ (<<"3.4000000000000004", 4>> :> "0.8500000000000001")
    @@ (<<"3.5999999999999996", 4>> :> "0.8999999999999999")
    @@ (<<"3.6", 4>> :> "0.9")
    @@ (<<"3.8", 4>> :> "0.95")
    @@ (<<"4.0", 4>> :> "1.0")

RECURSIVE FloatSumFrom(_, _)
\* sum(confidence_scores): the running total starts at 0 and takes the
\* scores from left to right
FloatSumFrom(total, scores) ==
    IF scores = <<>> THEN total
    ELSE FloatSumFrom(FloatAdd[<<total, FloatOf[Head(scores)]>>], Tail(scores))

\* sum(confidence_scores) / len(confidence_scores) if confidence_scores else 0
FloatMean(scores) ==
    IF scores = <<>> THEN "0" ELSE FloatDiv[<<FloatSumFrom("0", scores), Len(scores)>>]

\* WindowedAggregation.process with the average computed without the test
\* for an empty list: ZeroDivisionError, caught at line 229
WindowedAggregationProcess_NoGuard(key, events_list, window_start, now) ==
    LET confidence_scores == ConfidenceScores(events_list)
    IN  IF confidence_scores = <<>>
        THEN Outcome(<<>>, <<"aggregation_failed">>)
        ELSE Outcome(
               << [window_start           |-> window_start,
                   window_end             |-> window_start + WindowSize,
                   source_id              |-> key,
                   total_events           |-> Len(events_list),
                   event_type_counts      |-> EventTypeCounts(events_list),
                   average_confidence     |-> [num |-> SumSeq(confidence_scores),
                                               den |-> Len(confidence_scores),
                                               double |-> FloatMean(confidence_scores)],
                   high_confidence_events |->
                       Len(SelectSeq(confidence_scores, LAMBDA c : c > 90)),
                   aggregated_at          |-> now] >>,
               <<"windows_aggregated">>)

\* WindowedAggregation.process on element = (key, events) in the window that
\* starts at window_start.  average_confidence.double is the float the code
\* computes; num/den is the mean of the same scores as an exact fraction of
\* hundredths, what the float approximates.
WindowedAggregationProcess(key, events_list, window_start, now) ==
    LET confidence_scores == ConfidenceScores(events_list)
    IN Outcome(
         << [window_start           |-> window_start,
             window_end             |-> window_start + WindowSize,
             source_id              |-> key,
             total_events           |-> Len(events_list),
             event_type_counts      |-> EventTypeCounts(events_list),
             average_confidence     |->
                 IF confidence_scores # <<>>
                 THEN [num |-> SumSeq(confidence_scores), den |-> Len(confidence_scores),
                       double |-> FloatMean(confidence_scores)]
                 ELSE [num |-> 0, den |-> 1, double |-> FloatMean(confidence_scores)],
             high_confidence_events |->
                 Len(SelectSeq(confidence_scores, LAMBDA c : c > 90)),
             aggregated_at          |-> now] >>,
         <<"windows_aggregated">>)

\* the windowing segment reading every classified record
WindowingInput_Filtered == filtered_events

\* windowed_normal is built from normal_events
WindowingInput == normal_events

\* classified records fed to the windowing segment in one behaviour
MaxArrive == 3

\* an event of source src at second t
AggregateEvent(src, t, ty, c) ==
    [VideoAnalyticsEvent(BasePayload) EXCEPT
        !.source_id = src, !.timestamp.t = t, !.event_type = ty, !.confidence = c]

\* the events behind the records: normal ones with confidence 0.80, 1.0, 0.0
\* and none, in two windows and from two sources, and an anomalous one
AggregateEvents ==
    {AggregateEvent("A", 10, "motion_detected", Some(80)),
     AggregateEvent("A", 20, "motion_detected", Some(100)),
     AggregateEvent("A", 20, "motion_detected", Some(0)),
     AggregateEvent("A", 10, "system_event", None),
     AggregateEvent("A", 70, "motion_detected", Some(80)),
     AggregateEvent("B", 10, "motion_detected", Some(80)),
     AggregateEvent("A", 10, "anomaly_detected", None)}

\* the record with its timestamp as the RFC3339 string from_rfc3339 takes
WithStringTimestamp(x) == [x EXCEPT !.event.timestamp.pytype = "str"]

\* the records the segment may receive: what FilterAnomalies yields for the
\* events above, with event.timestamp as an RFC3339 string, and for one
\* event as the datetime object event.dict() leaves there
ClassifiedRecords ==
    {WithStringTimestamp(FilterAnomaliesProcess(e, DefaultThreshold, now).out[1]) :
        e \in AggregateEvents, now \in Clock}
    \cup {FilterAnomaliesProcess(e, DefaultThreshold, now).out[1] :
            e \in {AggregateEvent("A", 10, "motion_detected", Some(80))}, now \in Clock}

\* a classified record arrives in filtered_events
Arrive ==
    /\ fed < MaxArrive
    /\ \E x \in ClassifiedRecords : filtered_events' = Append(filtered_events, x)
    /\ fed' = fed + 1
    /\ UNCHANGED <<counters, parsed_events, enriched_events, normal_events,
                   anomaly_events, cursor, threshold, panes, closed, aggregations,
                   dropped, last,
                   monitor, workers, delivery>>

\* "Add Timestamps", "Window Normal Events", "Key by Source" and the
\* buffering of "Group by Source" on the next element of the segment's input
Window ==
    /\ cursor["window"] < Len(WindowingInput)
    /\ LET x == WindowingInput[cursor["window"] + 1]
           ts == from_rfc3339(x.event.timestamp)
           id == <<KeyBySource(x), FixedWindowStart(Val(ts), WindowSize)>>
       IN IF IsNone(ts)
          THEN /\ dropped' = Append(dropped, [element |-> x, why |-> "timestamp"])
               /\ panes' = panes
          ELSE IF IsLate(id, closed)
          THEN /\ dropped' = Append(dropped, [element |-> x, why |-> "late"])
               /\ panes' = panes
          ELSE /\ dropped' = dropped
               /\ panes' = [panes EXCEPT ![id] = Append(@, x)]
    /\ cursor' = [cursor EXCEPT !["window"] = @ + 1]
    /\ UNCHANGED <<counters, parsed_events, enriched_events, filtered_events,
                   normal_events, anomaly_events, threshold, closed, aggregations,
                   last, fed,
                   monitor, workers, delivery>>

\* The close trigger of one (key, window): the pane fires with what it
\* buffered, "Aggregate Windows" processes the group, and the pane's state is
\* discarded.  A pane that buffered nothing fires nothing.
ClosePane ==
    \E id \in PaneIds, now \in Clock :
        /\ ~IsLate(id, closed)
        /\ closed' = closed \cup {id}
        /\ panes' = [panes EXCEPT ![id] = <<>>]
        /\ IF panes[id] = <<>>
           THEN UNCHANGED <<counters, aggregations, last>>
           ELSE LET o == WindowedAggregationProcess(id[1], panes[id], id[2], now)
                IN /\ counters' = IncrementAll(counters, o.counted)
                   /\ aggregations' = aggregations \o o.out
                   /\ last' = [op |-> "aggregate",
                               input |-> Some([key |-> id[1], events |-> panes[id],
                                               window_start |-> id[2]]),
                               verdict |-> None, out |-> o.out, counted |-> o.counted]
        /\ UNCHANGED <<parsed_events, enriched_events, filtered_events, normal_events,
                       anomaly_events, cursor, threshold, dropped, fed,
                       monitor, workers, delivery>>

NextAggregate == Arrive \/ FilterNormal \/ Window \/ ClosePane

\* the normal branch, the windowing and the aggregation, on any classified
\* records and any timing of the close triggers
SpecAggregate == Init /\ [][NextAggregate]_vars

-----------------------------------------------------------------------------
(* Claims about the windowing segment and the aggregation *)

\* the pane an element of the segment's input belongs to
PaneOf(x) == <<KeyBySource(x), FixedWindowStart(x.event.timestamp.t, WindowSize)>>

\* the aggregates emitted for pane id, by position in aggregations
AggregatesOf(id) ==
    {i \in 1..Len(aggregations) :
        aggregations[i].source_id = id[1] /\ aggregations[i].window_start = id[2]}

\* how many elements the windowing has taken into pane id: those consumed,
\* given a timestamp, and not dropped as late
Accepted(id) ==
    Cardinality({i \in 1..cursor["window"] :
                    /\ ~IsNone(from_rfc3339(WindowingInput[i].event.timestamp))
                    /\ PaneOf(WindowingInput[i]) = id})
    - Cardinality({i \in 1..Len(dropped) :
                    dropped[i].why = "late" /\ PaneOf(dropped[i].element) = id})

\* how many elements the panes hold
Buffered ==
    Cardinality({p \in PaneIds \X (1..MaxArrive) : p[2] <= Len(panes[p[1]])})

\* the confidence values carried by the events of a group, 0.0 included
CarriedConfidences(events_list) ==
    LET I == {i \in 1..Len(events_list) : ~IsNone(events_list[i].event.confidence)}
    IN [j \in 1..Len(SelectSeqIdx(events_list, I)) |->
          Val(SelectSeqIdx(events_list, I)[j].event.confidence)]

\* C7: only records classified as normal are windowed and aggregated: every
\* element buffered in a pane and every element of an aggregated group has
\* is_anomaly = false, and the aggregates' total_events, the buffered
\* elements and the dropped ones account for exactly the normal records the
\* windowing has consumed.
C7_OnlyNormalAggregated ==
    /\ \A id \in PaneIds : \A i \in 1..Len(panes[id]) : ~panes[id][i].is_anomaly
    /\ last.op = "aggregate" =>
          \A i \in 1..Len(Val(last.input).events) : ~Val(last.input).events[i].is_anomaly
    /\ SumSeq([i \in 1..Len(aggregations) |-> aggregations[i].total_events])
          + Buffered
          + Len(dropped)
       = cursor["window"]
    /\ cursor["window"] <= Len(SelectSeq(filtered_events, LAMBDA x : ~x.is_anomaly))

\* C7 witness: an anomalous and a normal record have arrived and passed the
\* normal filter, and the one aggregate emitted counts one event
C7_Witness ==
    /\ Len(filtered_events) = 2
    /\ cursor["normal"] = 2
    /\ \E i \in 1..2 : filtered_events[i].is_anomaly
    /\ Len(aggregations) = 1
    /\ aggregations[1].total_events = 1

\* C8: the aggregate of a group has total_events = the size of the group,
\* average_confidence = the mean of every confidence value its events carry,
\* and high_confidence_events = the number of those values above 0.9; for
\* confidences 0.8 and 1.0 on source A in window [0, 60) it is 2, 0.9 and 1.
C8_AggregateOfEveryConfidence ==
    last.op = "aggregate" =>
        LET g == Val(last.input)
            a == last.out[1]
            all == CarriedConfidences(g.events)
        IN /\ Len(last.out) = 1
           /\ a.total_events = Len(g.events)
           /\ all # <<>> =>
                 a.average_confidence.num * Len(all) = SumSeq(all) * a.average_confidence.den
           /\ a.high_confidence_events = Len(SelectSeq(all, LAMBDA c : c > 90))
           /\ (g.key = "A" /\ g.window_start = 0 /\ all = <<80, 100>>) =>
                 /\ a.total_events = 2
                 /\ a.average_confidence.num * 100 = 90 * a.average_confidence.den
                 /\ a.high_confidence_events = 1

\* C9: when no event of a group carries a confidence value the pane still
\* yields an aggregate, with average_confidence 0 and high_confidence_events
\* 0; no aggregation call fails.
C9_NoConfidenceAverageZero ==
    /\ counters["aggregation_failed"] = 0
    /\ Len(aggregations) = counters["windows_aggregated"]
    /\ (last.op = "aggregate"
          /\ \A i \in 1..Len(Val(last.input).events) :
                IsNone(Val(last.input).events[i].event.confidence)) =>
          /\ Len(last.out) = 1
          /\ last.out[1].average_confidence.num = 0
          /\ last.out[1].high_confidence_events = 0

\* C9 witness: a pane holding two events without confidence has fired
C9_Witness ==
    /\ last.op = "aggregate"
    /\ Len(Val(last.input).events) = 2
    /\ \A i \in 1..2 : IsNone(Val(last.input).events[i].event.confidence)
    /\ Len(aggregations) = 1
    /\ aggregations[1].total_events = 2

\* the state part of C10
OneAggregatePerPane ==
    \A id \in PaneIds :
        /\ Cardinality(AggregatesOf(id)) <= 1
        /\ id \in closed => panes[id] = <<>>
        /\ id \notin closed => AggregatesOf(id) = {}
        /\ (id \in closed /\ Accepted(id) >= 1) <=> Cardinality(AggregatesOf(id)) = 1
        /\ \A i \in AggregatesOf(id) : aggregations[i].total_events = Accepted(id)

Consumed(id) ==
    Cardinality({i \in 1..cursor["window"] : PaneOf(WindowingInput[i]) = id})

\* how many elements the runner dropped as late for pane id
DroppedLate(id) ==
    Cardinality({i \in 1..Len(dropped) :
                    dropped[i].why = "late" /\ PaneOf(dropped[i].element) = id})

\* C11: every normal event is assigned to exactly one fixed-size window,
\* chosen by its own timestamp: an event with timestamp t is held, and then
\* aggregated, in the window [floor(t/S)*S, floor(t/S)*S + S) of its
\* source_id and in no other.  Every element the windowing consumed is in the
\* pane of its timestamp and source, or in that pane's aggregate, unless the
\* pane had fired before it came.
C11_WindowByEventTime ==
    \A id \in PaneIds :
        /\ id[2] % WindowSize = 0
        /\ \A i \in 1..Len(panes[id]) : PaneOf(panes[id][i]) = id
        /\ Consumed(id) =
              Len(panes[id])
              + SumSeq([i \in 1..Len(aggregations) |->
                          IF i \in AggregatesOf(id) THEN aggregations[i].total_events
                          ELSE 0])
              + DroppedLate(id)

-----------------------------------------------------------------------------
(* DataQualityChecker.validate_event on any event *)

\* processing_metadata whose processing_time is the naive datetime of second t
MetadataAt(t) ==
    [pipeline_version |-> None,
     processing_time  |-> Some([aware |-> FALSE, t |-> t]),
     model_version    |-> None]

\* Events validate_event may be handed: constructed events, and constructed
\* events whose fields were assigned afterwards, as the tests do (assignment
\* is not validated): a confidence of 1.5, a bounding box with a negative
\* coordinate, a zero width and a height of 5000.  Timestamps are recent, in
\* the future and older than 7 days, naive and offset-aware; processing_time
\* is absent, naive or offset-aware.
ValidateEvents ==
    {[VideoAnalyticsEvent(BasePayload) EXCEPT
          !.event_type = ty, !.confidence = c, !.bounding_box = b,
          !.timestamp = ts, !.processing_metadata = pm,
          !.source_id = ids, !.camera_id = ids, !.location = loc] :
        ty  \in {"person_detected", "vehicle_detected", "motion_detected",
                 "performance_metric"},
        c   \in {None, Some(0), Some(10), Some(80), Some(150)},
        b   \in {None,
                 Some([x |-> 10, y |-> 20, width |-> 100, height |-> 200]),
                 Some([x |-> 10, y |-> 20, width |-> 5, height |-> 5]),
                 Some([x |-> -1, y |-> 20, width |-> 0, height |-> 5000])},
        ts  \in {[aware |-> FALSE, t |-> 999990], [aware |-> TRUE, t |-> 999990],
                 [aware |-> FALSE, t |-> 1000400], [aware |-> FALSE, t |-> 300000]},
        pm  \in {None, Some(MetadataAt(999000)),
                 Some([MetadataAt(999000) EXCEPT
                          !.processing_time = Some([aware |-> TRUE, t |-> 999000])])},
        ids \in {"A", ""},
        loc \in {None, Some([latitude |-> Some(100), longitude |-> Some(200)])}}

\* a checker has been constructed and an event is about to be handed to it
InitValidate ==
    /\ InitPipeline(DefaultThreshold)
    /\ \E event \in ValidateEvents, now \in Clock :
         last = [op |-> "pending", input |-> Some([event |-> event, now |-> now]),
                 verdict |-> None, out |-> <<>>, counted |-> <<>>]

\* self.checker.validate_event(event)
Validate ==
    /\ last.op = "pending"
    /\ last' = [last EXCEPT
                  !.op = "validate",
                  !.verdict = Some(validate_event(Val(last.input).event,
                                                  Val(last.input).now))]
    /\ UNCHANGED <<counters, parsed_events, enriched_events, filtered_events,
                   normal_events, anomaly_events, cursor, threshold, panes, closed,
                   aggregations, dropped, fed,
                   monitor, workers, delivery>>

\* seconds that may pass between two calls on the same event
Delays == {0, 200}

\* the caller's second call, on an errors list that was left on the checker
Revalidate_SharedErrors ==
    /\ last.op = "validate"
    /\ \E delay \in Delays :
         LET again  == Val(last.input).now + delay
             second == validate_event(Val(last.input).event, again)
         IN  last' = [op |-> "revalidate",
                      input |-> Some([event |-> Val(last.input).event,
                                      now |-> Val(last.input).now,
                                      again |-> again]),
                      verdict |-> Some([second EXCEPT
                                           !.errors = Val(last.verdict).errors \o @]),
                      out |-> <<Val(last.verdict)>>, counted |-> <<>>]
    /\ UNCHANGED <<counters, parsed_events, enriched_events, filtered_events,
                   normal_events, anomaly_events, cursor, threshold, panes, closed,
                   aggregations, dropped, fed, monitor, workers, delivery>>

\* self.checker.validate_event(event) once more, on the same event: errors,
\* warnings and quality_score are locals of the call, the schema and the rules
\* are only read, and the clock is read again
Revalidate ==
    /\ last.op = "validate"
    /\ \E delay \in Delays :
         LET again == Val(last.input).now + delay
         IN  last' = [op |-> "revalidate",
                      input |-> Some([event |-> Val(last.input).event,
                                      now |-> Val(last.input).now,
                                      again |-> again]),
                      verdict |-> Some(validate_event(Val(last.input).event, again)),
                      out |-> <<Val(last.verdict)>>, counted |-> <<>>]
    /\ UNCHANGED <<counters, parsed_events, enriched_events, filtered_events,
                   normal_events, anomaly_events, cursor, threshold, panes, closed,
                   aggregations, dropped, fed, monitor, workers, delivery>>

NextValidate == Validate \/ Revalidate

\* the checker alone, on any event
SpecValidate == InitValidate /\ [][NextValidate]_vars

-----------------------------------------------------------------------------
(* Claims about DataQualityChecker.validate_event *)

\* the event gives no rule anything to report at time now: a recent
\* timestamp, non-empty source ids, a location in range, a confidence in
\* [0,1] that is not very low, a bounding box of ordinary size, and the data
\* its event type calls for
NoIssue(event, now) ==
    /\ event.timestamp.t <= now + 300
    /\ event.timestamp.t >= now - 604800
    /\ IsNone(event.processing_metadata)
    /\ Strip(event.event_id) # ""
    /\ Strip(event.source_id) # ""
    /\ Strip(event.camera_id) # ""
    /\ IsNone(event.location)
    /\ ~IsNone(event.confidence)
    /\ Val(event.confidence) >= 30
    /\ Val(event.confidence) <= 100
    /\ ~IsNone(event.bounding_box)
    /\ Val(event.bounding_box).x >= 0
    /\ Val(event.bounding_box).y >= 0
    /\ Val(event.bounding_box).width \in 10..3840
    /\ Val(event.bounding_box).height \in 10..2160
    /\ event.event_type = "performance_metric" =>
          (~IsNone(event.metrics) /\ Val(event.metrics) > 0)

\* C12: for every constructed event with confidence in [0,1] and no other
\* issue (recent timestamp in any accepted form, non-empty source ids, data
\* consistent with the event type), validate_event returns is_valid = true,
\* no errors, and score = 1.0.
C12_CleanEventIsValid ==
    (/\ last.op = "parse"
     /\ ~IsNone(last.verdict)
     /\ \E now \in Clock :
           NoIssue(VideoAnalyticsEvent(Val(Val(last.input).payload)), now)) =>
        /\ Val(last.verdict).is_valid
        /\ Val(last.verdict).errors = <<>>
        /\ Val(last.verdict).score = 1000

\* the results of the five rules for the event of the last validate call
RulesOfLast == ValidationRules(Val(last.input).event, Val(last.input).now)

\* the errors the five rules return, in the rules' order
RuleErrors(rules) ==
    rules[1].errors \o rules[2].errors \o rules[3].errors \o rules[4].errors
        \o rules[5].errors

\* the warnings the five rules return, in the rules' order
RuleWarnings(rules) ==
    rules[1].warnings \o rules[2].warnings \o rules[3].warnings \o rules[4].warnings
        \o rules[5].warnings

\* C13: in every ValidationResult is_valid is true if and only if the errors
\* list collected from the schema check and all five rules is empty; a
\* schema-check failure alone, with no rule error, makes is_valid false.
C13_ValidIffNoErrors ==
    last.op = "validate" =>
        LET v == Val(last.verdict)
            schema == SchemaErrors(EventDict(Val(last.input).event))
        IN /\ v.errors = schema \o RuleErrors(RulesOfLast)
           /\ v.is_valid <=> (schema = <<>> /\ RuleErrors(RulesOfLast) = <<>>)
           /\ schema # <<>> => ~v.is_valid

\* C13 witness: the schema check failed, no rule reported an error, and the
\* result is not valid
C13_Witness ==
    /\ last.op = "validate"
    /\ SchemaErrors(EventDict(Val(last.input).event)) # <<>>
    /\ RuleErrors(RulesOfLast) = <<>>
    /\ Len(Val(last.verdict).errors) = 1
    /\ ~Val(last.verdict).is_valid

\* max(0.0, s), in thousandths
ClampZero(s) == IF s < 0 THEN 0 ELSE s

\* C14 as stated: the score starts at 1.0 and is lowered by severity*0.2 for
\* each error and by severity*0.1 for each warning that a rule returns (k
\* errors of one rule are charged k times), then clamped at 0.0.
C14_ScorePerErrorAndWarning ==
    last.op = "validate" =>
        Val(last.verdict).score =
            ClampZero(1000 - SumSeq([i \in 1..5 |->
                         Len(RulesOfLast[i].errors) * RulesOfLast[i].severity * 20
                         + Len(RulesOfLast[i].warnings) * RulesOfLast[i].severity * 10]))

\* C14 amended: the score starts at 1.0, is lowered by 0.3 when the schema
\* check fails, by severity*0.2 once for each rule that returns at least one
\* error and by severity*0.1 once for each rule that returns at least one
\* warning, however many it returns, then clamped at 0.0.
C14_ScorePerRule ==
    last.op = "validate" =>
        Val(last.verdict).score =
            ClampZero(1000
                - (IF SchemaErrors(EventDict(Val(last.input).event)) # <<>>
                   THEN 300 ELSE 0)
                - SumSeq([i \in 1..5 |->
                         (IF RulesOfLast[i].errors # <<>>
                          THEN RulesOfLast[i].severity * 20 ELSE 0)
                         + (IF RulesOfLast[i].warnings # <<>>
                            THEN RulesOfLast[i].severity * 10 ELSE 0)]))

\* C14 witness: one rule returned two errors and two warnings and the score
\* is above 0
C14_Witness ==
    /\ last.op = "validate"
    /\ \E i \in 1..5 : Len(RulesOfLast[i].errors) = 2 /\ Len(RulesOfLast[i].warnings) = 2
    /\ Val(last.verdict).score > 0

\* C15: every ValidationResult has a score in [0,1], for every event and
\* every combination of schema failure, rule errors and rule warnings.
C15_ScoreInUnitInterval ==
    ~IsNone(last.verdict) =>
        (Val(last.verdict).score >= 0 /\ Val(last.verdict).score <= 1000)

\* C15 witness: the deductions of the schema check and of the rules add up to
\* more than 1.0 and the score is 0.0
C15_Witness ==
    /\ last.op = "validate"
    /\ 300 + SumSeq([i \in 1..5 |->
                 (IF RulesOfLast[i].errors # <<>>
                  THEN RulesOfLast[i].severity * 20 ELSE 0)
                 + (IF RulesOfLast[i].warnings # <<>>
                    THEN RulesOfLast[i].severity * 10 ELSE 0)]) > 1000
    /\ Val(last.verdict).score = 0

\* evaluating the timestamp rule raises: the event's timestamp is
\* offset-aware and the validator's clock is naive, or processing_time is
\* offset-aware and the timestamp is naive
TimestampFault(event) ==
    \/ event.timestamp.aware
    \/ /\ ~IsNone(event.processing_metadata)
       /\ ~IsNone(Val(event.processing_metadata).processing_time)
       /\ Val(Val(event.processing_metadata).processing_time).aware

\* C16: a fault raised while evaluating one rule never aborts validate_event:
\* the fault becomes an error string attributed to that rule, and every
\* remaining rule is still evaluated, its errors and warnings present in the
\* returned result.
C16_RuleFaultIsolated ==
    (last.op = "validate" /\ TimestampFault(Val(last.input).event)) =>
        LET v == Val(last.verdict)
            rest == SubSeq(RulesOfLast, 2, 5)
        IN /\ "Timestamp validation error" \in Range(v.errors)
           /\ \A i \in 1..4 :
                 /\ Range(rest[i].errors) \subseteq Range(v.errors)
                 /\ Range(rest[i].warnings) \subseteq Range(v.warnings)
           /\ v.warnings = RuleWarnings(RulesOfLast)
           /\ Len(v.errors) = 1 + Len(RulesOfLast[1].errors) + Len(rest[1].errors)
                                + Len(rest[2].errors) + Len(rest[3].errors)
                                + Len(rest[4].errors)

\* C16 witness: the timestamp rule faulted and the later rules' errors and
\* warnings are all in the result
C16_Witness ==
    /\ last.op = "validate"
    /\ TimestampFault(Val(last.input).event)
    /\ "Invalid latitude value" \in Range(Val(last.verdict).errors)
    /\ "Bounding box is very small" \in Range(Val(last.verdict).warnings)
    /\ "Timestamp validation error" \in Range(Val(last.verdict).errors)

-----------------------------------------------------------------------------
(* Claims about the enrichment stage *)

\* the names in data.attributes
AttributeNames(event) == IF IsNone(event.attributes) THEN {} ELSE Val(event.attributes)

\* C17: the enrichment stage yields exactly one event for every input event,
\* on the normal path and on the enrichment-failure path alike: the call
\* yields the event it was given, once, and enriched_events holds one event
\* per call, counted as enriched or as failed.
C17_EnrichYieldsExactlyOne ==
    /\ last.op = "enrich" =>
          /\ Len(last.out) = 1
          /\ [last.out[1] EXCEPT !.attributes = None]
                = [Val(last.input) EXCEPT !.attributes = None]
          /\ AttributeNames(Val(last.input)) \subseteq AttributeNames(last.out[1])
          /\ last.counted \in {<<"events_enriched">>, <<"events_enrichment_failed">>}
    /\ Len(enriched_events) =
          counters["events_enriched"] + counters["events_enrichment_failed"]
    /\ Len(enriched_events) = fed

\* C17 witness: an enrichment failed in the location block and its event was
\* still yielded
C17_Witness ==
    /\ last.op = "enrich"
    /\ last.counted = <<"events_enrichment_failed">>
    /\ ~IsNone(Val(last.input).location)
    /\ Len(enriched_events) = 1
    /\ enriched_events[1].event_id = Val(last.input).event_id

-----------------------------------------------------------------------------
(* Claims about construction *)

\* the JSON object carries a numeric field outside its range
OutOfRange(p) ==
    \/ ~IsNone(p.confidence) /\ (Val(p.confidence) < 0 \/ Val(p.confidence) > 100)
    \/ ~IsNone(p.bounding_box)
          /\ (\/ Val(p.bounding_box).x < 0
              \/ Val(p.bounding_box).y < 0
              \/ Val(p.bounding_box).width <= 0
              \/ Val(p.bounding_box).height <= 0)
    \/ ~IsNone(p.location) /\ ~IsNone(Val(p.location).latitude)
          /\ (Val(Val(p.location).latitude) < -90 \/ Val(Val(p.location).latitude) > 90)
    \/ ~IsNone(p.location) /\ ~IsNone(Val(p.location).longitude)
          /\ (Val(Val(p.location).longitude) < -180
              \/ Val(Val(p.location).longitude) > 180)

\* C19: construction fails for every out-of-range numeric field: a
\* confidence outside [0,1], a bounding box with x < 0, y < 0, width <= 0 or
\* height <= 0, a latitude outside [-90,90] or a longitude outside
\* [-180,180]; an event carrying such a value is never constructed and never
\* reaches the validator.
C19_OutOfRangeFailsConstruction ==
    (/\ last.op = "parse"
     /\ Val(last.input).kind = "object"
     /\ OutOfRange(Val(Val(last.input).payload))) =>
        /\ ~Constructs(Val(Val(last.input).payload))
        /\ IsNone(last.verdict)
        /\ last.out = <<>>
        /\ last.counted = <<"events_validation_failed">>

\* the same timestamp string in the other accepted form
OtherForm(v) == [v EXCEPT !.form = IF @ = "Z" THEN "naive" ELSE "Z"]

\* C20: timestamp strings in RFC3339 form with a trailing "Z" and without it
\* are both accepted and normalise to the same internal instant type: the
\* same instant given in either form yields equal timestamps, comparable
\* with each other and with the validator's clock; a string in neither form
\* fails construction.
C20_BothFormsSameInstant ==
    (last.op = "parse" /\ Val(last.input).kind = "object") =>
        LET p == Val(Val(last.input).payload)
            ts == parse_timestamp(p.timestamp)
            other == parse_timestamp(OtherForm(p.timestamp))
        IN /\ p.timestamp.form \in {"Z", "naive"} =>
                 /\ ~IsNone(ts)
                 /\ ts = other
                 /\ Comparable(Val(ts), Val(other))
                 /\ \A now \in Clock : Comparable(Val(ts), [aware |-> FALSE, t |-> now])
                 /\ ~IsNone(last.verdict) =>
                       "Timestamp validation error" \notin Range(Val(last.verdict).errors)
           /\ p.timestamp.form \notin {"Z", "naive"} =>
                 /\ IsNone(ts)
                 /\ last.counted = <<"events_validation_failed">>

-----------------------------------------------------------------------------
(* Further claims about DataQualityChecker and DataQualityMonitor *)

\* C21: for every person_detected or vehicle_detected event with confidence
\* below 0.3, validate_event returns a non-empty warnings list, holding the
\* low-confidence warning.
C21_LowConfidenceWarns ==
    (/\ last.op = "validate"
     /\ Val(last.input).event.event_type \in {"person_detected", "vehicle_detected"}
     /\ ~IsNone(Val(last.input).event.confidence)
     /\ Val(Val(last.input).event.confidence) < 30) =>
        /\ Val(last.verdict).warnings # <<>>
        /\ "Very low confidence for detection event" \in Range(Val(last.verdict).warnings)

\* C21 witness: a vehicle_detected event with confidence 0.0 and a bounding
\* box of ordinary size was validated, and the low-confidence warning is the
\* only warning
C21_Witness ==
    /\ last.op = "validate"
    /\ Val(last.input).event.event_type = "vehicle_detected"
    /\ Val(last.input).event.confidence = Some(0)
    /\ Val(last.verdict).warnings = <<"Very low confidence for detection event">>

-----------------------------------------------------------------------------
(* DataQualityMonitor: record_validation_result and get_quality_metrics *)

\* most results a monitor is handed, and the minutes the clock may reach
MaxRecords == 3
MaxMinutes == 3

\* results handed to the monitor: six different error texts among them
MonitorResults ==
    {[is_valid |-> TRUE,  errors |-> <<>>, warnings |-> <<>>, score |-> 1000],
     [is_valid |-> TRUE,  errors |-> <<>>,
      warnings |-> <<"Very low confidence for detection event">>, score |-> 950],
     [is_valid |-> FALSE, errors |-> <<"Empty camera ID">>, warnings |-> <<>>,
      score |-> 920],
     [is_valid |-> FALSE,
      errors |-> <<"Schema validation failed", "Empty video source ID",
                   "Empty camera ID">>,
      warnings |-> <<"Timestamp is quite old">>, score |-> 490],
     [is_valid |-> FALSE,
      errors |-> <<"Confidence score is out of range [0,1]",
                   "Bounding box has negative coordinates",
                   "Bounding box has invalid dimensions",
                   "Timestamp is too far in the future">>,
      warnings |-> <<"Timestamp is quite old",
                     "Very low confidence for detection event">>, score |-> 0]}

\* window_minutes a caller may ask for
WindowMinutes == {1, 2}

\* d[key] = d.get(key, 0) + 1 on an insertion-ordered dict
Bump(d, key) ==
    IF \E i \in 1..Len(d) : d[i].key = key
        THEN [i \in 1..Len(d) |-> IF d[i].key = key
                                     THEN [d[i] EXCEPT !.n = @ + 1] ELSE d[i]]
        ELSE Append(d, [key |-> key, n |-> 1])

RECURSIVE BumpAll(_, _)
\* for error in result.errors: self.error_counts[error] = ... + 1
BumpAll(d, keys) ==
    IF keys = <<>> THEN d ELSE BumpAll(Bump(d, Head(keys)), Tail(keys))

RECURSIVE SortedByCount(_)
\* sorted(d.items(), key=lambda x: x[1], reverse=True): the sort is stable, so
\* among equal counts the key inserted first comes first
SortedByCount(d) ==
    IF d = <<>> THEN <<>>
    ELSE LET i == CHOOSE j \in 1..Len(d) :
                    /\ \A k \in 1..Len(d) : d[k].n <= d[j].n
                    /\ \A k \in 1..(j - 1) : d[k].n < d[j].n
         IN  <<d[i]>> \o SortedByCount(SelectSeqIdx(d, (1..Len(d)) \ {i}))

\* [:5]
Top5(s) == SubSeq(s, 1, IF Len(s) < 5 THEN Len(s) ELSE 5)

\* self.quality_history.append({...}) and the two counting loops
RecordValidationResult ==
    /\ Len(monitor.quality_history) < MaxRecords
    /\ \E result \in MonitorResults :
         monitor' = [monitor EXCEPT
             !.quality_history = Append(@,
                 [timestamp     |-> monitor.utcnow,
                  quality_score |-> result.score,
                  is_valid      |-> result.is_valid,
                  error_count   |-> Len(result.errors),
                  warning_count |-> Len(result.warnings)]),
             !.error_counts   = BumpAll(@, result.errors),
             !.warning_counts = BumpAll(@, result.warnings),
             !.inputs         = Append(@, result)]
    /\ last' = [NoCall EXCEPT !.op = "record_validation_result"]
    /\ UNCHANGED <<counters, parsed_events, enriched_events, filtered_events,
                   normal_events, anomaly_events, cursor, threshold, panes, closed,
                   aggregations, dropped, fed, workers, delivery>>

\* indices of the records with record["timestamp"] > cutoff_time
RecentIdx(m, window_minutes) ==
    {i \in 1..Len(m.quality_history) :
        m.quality_history[i].timestamp > m.utcnow - window_minutes}

\* the dict get_quality_metrics returns; quotients are kept as fractions
get_quality_metrics(m, window_minutes) ==
    LET recent_records == SelectSeqIdx(m.quality_history, RecentIdx(m, window_minutes))
        total_events == Len(recent_records)
        valid_events == Len(SelectSeq(recent_records, LAMBDA r : r.is_valid))
    IN  IF recent_records = <<>>
        THEN [no_data |-> TRUE]
        ELSE [window_minutes |-> window_minutes,
              total_events   |-> total_events,
              valid_events   |-> valid_events,
              validity_rate  |-> [num |-> valid_events, den |-> total_events],
              average_quality_score |->
                  [num |-> SumSeq([i \in 1..total_events |->
                                      recent_records[i].quality_score]),
                   den |-> total_events],
              total_errors   |-> SumSeq([i \in 1..total_events |->
                                            recent_records[i].error_count]),
              total_warnings |-> SumSeq([i \in 1..total_events |->
                                            recent_records[i].warning_count]),
              top_errors     |-> Top5(SortedByCount(m.error_counts)),
              top_warnings   |-> Top5(SortedByCount(m.warning_counts))]

\* monitor.get_quality_metrics(window_minutes)
GetQualityMetrics ==
    /\ \E window_minutes \in WindowMinutes :
         last' = [op |-> "get_quality_metrics", input |-> Some(window_minutes),
                  verdict |-> None,
                  out |-> <<get_quality_metrics(monitor, window_minutes)>>,
                  counted |-> <<>>]
    /\ UNCHANGED <<counters, parsed_events, enriched_events, filtered_events,
                   normal_events, anomaly_events, cursor, threshold, panes, closed,
                   aggregations, dropped, fed, monitor, workers, delivery>>

\* a minute passes on the wall clock datetime.utcnow() reads
Elapse ==
    /\ monitor.utcnow < MaxMinutes
    /\ monitor' = [monitor EXCEPT !.utcnow = @ + 1]
    /\ last' = NoCall
    /\ UNCHANGED <<counters, parsed_events, enriched_events, filtered_events,
                   normal_events, anomaly_events, cursor, threshold, panes, closed,
                   aggregations, dropped, fed, workers, delivery>>

NextMonitor == RecordValidationResult \/ GetQualityMetrics \/ Elapse

\* one monitor, recording results and reporting as time passes
SpecMonitor == Init /\ [][NextMonitor]_vars

\* the counts a dict would hold had it counted only the results whose record
\* is in the window
RECURSIVE CountsAmong(_, _, _, _)
CountsAmong(inputs, idx, field, i) ==
    IF i > Len(inputs) THEN <<>>
    ELSE LET rest == CountsAmong(inputs, idx, field, i + 1)
             mine == IF i \in idx THEN inputs[i][field] ELSE <<>>
         IN  mine \o rest

\* C22: get_quality_metrics(window_minutes) reports on the records of the
\* trailing window only: their count, validity rate, average score and total
\* error and warning counts, and the five most frequent error and warning
\* texts among those same records, by descending count, ties in first-seen
\* order.
C22_ReportOnWindowOnly ==
    (last.op = "get_quality_metrics") =>
        LET w   == Val(last.input)
            idx == RecentIdx(monitor, w)
            r   == last.out[1]
            rec == SelectSeqIdx(monitor.inputs, idx)
            n   == Len(rec)
        IN  IF idx = {}
            THEN r = [no_data |-> TRUE]
            ELSE /\ r.total_events = n
                 /\ r.validity_rate =
                        [num |-> Cardinality({i \in idx : monitor.inputs[i].is_valid}),
                         den |-> n]
                 /\ r.average_quality_score =
                        [num |-> SumSeq([i \in 1..n |-> rec[i].score]), den |-> n]
                 /\ r.total_errors = SumSeq([i \in 1..n |-> Len(rec[i].errors)])
                 /\ r.total_warnings = SumSeq([i \in 1..n |-> Len(rec[i].warnings)])
                 /\ r.top_errors =
                        Top5(SortedByCount(BumpAll(<<>>,
                            CountsAmong(monitor.inputs, idx, "errors", 1))))
                 /\ r.top_warnings =
                        Top5(SortedByCount(BumpAll(<<>>,
                            CountsAmong(monitor.inputs, idx, "warnings", 1))))

-----------------------------------------------------------------------------
(* validate_event called twice *)

-----------------------------------------------------------------------------
(* pubsub/manager.py publish_event, and the parse of what it published *)

\* a datetime written with strftime("%Y-%m-%d %H:%M:%S"): the offset is lost
StrOfDatetime_NoOffset(dt) == [form |-> "space", t |-> dt.t]

\* default=str on a datetime: "YYYY-MM-DD HH:MM:SS", followed by "+00:00"
\* when the datetime is offset-aware
StrOfDatetime(dt) ==
    [form |-> IF dt.aware THEN "space_offset" ELSE "space", t |-> dt.t]

\* An attribute is written by its key.  Its value is a JSON value (a string,
\* a number, a boolean) unless the key is followed by ":datetime", which
\* marks a value that is a datetime object: attributes is Dict[str, Any].
\* default=str writes such a value as a string, a JSON value from then on.
DefaultStr(a) == IF a = "captured_at:datetime" THEN "captured_at" ELSE a

\* every value of attributes is a JSON value
JsonAttributes(event) ==
    IsNone(event.attributes) \/ \A a \in Val(event.attributes) : DefaultStr(a) = a

\* json.dumps(event_dict, default=str), read back by json.loads: the JSON
\* object of the message
Dumps(event_dict) ==
    [missing             |-> FALSE,
     event_id            |-> event_dict.event_id,
     timestamp           |-> StrOfDatetime(event_dict.timestamp),
     source_id           |-> event_dict.source_id,
     camera_id           |-> event_dict.camera_id,
     location            |-> event_dict.location,
     event_type          |-> event_dict.event_type,
     confidence          |-> event_dict.confidence,
     bounding_box        |-> event_dict.bounding_box,
     metrics             |-> event_dict.metrics,
     attributes          |-> IF IsNone(event_dict.attributes) THEN None
                             ELSE Some({DefaultStr(a) : a \in Val(event_dict.attributes)}),
     processing_metadata |->
         IF \/ IsNone(event_dict.processing_metadata)
            \/ IsNone(Val(event_dict.processing_metadata).processing_time)
         THEN event_dict.processing_metadata
         ELSE Some([Val(event_dict.processing_metadata) EXCEPT
                       !.processing_time = Some(StrOfDatetime(Val(@)))])]

\* Events a publisher may hold: every constructed event, as constructed, as
\* EnrichEvent leaves it, and with attributes of the publisher's own, one of
\* them a datetime; without processing_metadata, and with a processing_time
\* that is absent, naive or offset-aware
PublishedEvents ==
    {[e EXCEPT !.attributes = a, !.processing_metadata = pm] :
        e  \in ConstructedEvents,
        a  \in {None, Some({"high_confidence", "has_location"}),
                Some({"detection_model", "captured_at:datetime"})},
        pm \in {None, Some(NoMetadata), Some(MetadataAt(999000)),
                Some([MetadataAt(999000) EXCEPT
                         !.processing_time = Some([aware |-> TRUE, t |-> 999000])])}}

\* a publisher holds an event
InitPublish ==
    /\ InitPipeline(DefaultThreshold)
    /\ \E event \in PublishedEvents :
         last = [op |-> "event", input |-> Some(event), verdict |-> None,
                 out |-> <<>>, counted |-> <<>>]

\* publish_event: message_data = json.dumps(event.dict(), default=str)
Publish ==
    /\ last.op = "event"
    /\ last' = [last EXCEPT !.op = "publish",
                            !.out = <<Dumps(EventDict(Val(last.input)))>>]
    /\ UNCHANGED <<counters, parsed_events, enriched_events, filtered_events,
                   normal_events, anomaly_events, cursor, threshold, panes, closed,
                   aggregations, dropped, fed, monitor, workers, delivery>>

\* the subscriber's VideoAnalyticsEvent(**json.loads(message_data)); verdict
\* is the event it constructs, None when construction fails
Reparse ==
    /\ last.op = "publish"
    /\ last' = [last EXCEPT
                  !.op = "reparse",
                  !.verdict = IF Constructs(last.out[1])
                                  THEN Some(VideoAnalyticsEvent(last.out[1]))
                                  ELSE None]
    /\ UNCHANGED <<counters, parsed_events, enriched_events, filtered_events,
                   normal_events, anomaly_events, cursor, threshold, panes, closed,
                   aggregations, dropped, fed, monitor, workers, delivery>>

NextPublish == Publish \/ Reparse

\* an event serialised by the publisher and parsed again
SpecPublish == InitPublish /\ [][NextPublish]_vars

-----------------------------------------------------------------------------
(* The aggregation under any arrival order *)

\* normal events of source A in the window [0, 60) with confidence 0.1, 0.2,
\* 0.3 and none, the later ones first, and one of source B
ShuffledEvents ==
    {AggregateEvent("A", 30, "motion_detected", Some(10)),
     AggregateEvent("A", 20, "motion_detected", Some(20)),
     AggregateEvent("A", 10, "system_event", Some(30)),
     AggregateEvent("A", 40, "system_event", None),
     AggregateEvent("B", 10, "motion_detected", Some(80))}

\* what FilterAnomalies yields for them
ShuffledRecords ==
    {WithStringTimestamp(FilterAnomaliesProcess(e, DefaultThreshold, now).out[1]) :
        e \in ShuffledEvents, now \in Clock}

\* one of these records arrives in filtered_events, in any order
ArriveShuffled ==
    /\ fed < MaxArrive
    /\ \E x \in ShuffledRecords : filtered_events' = Append(filtered_events, x)
    /\ fed' = fed + 1
    /\ UNCHANGED <<counters, parsed_events, enriched_events, normal_events,
                   anomaly_events, cursor, threshold, panes, closed, aggregations,
                   dropped, last, monitor, workers, delivery>>

NextShuffled == ArriveShuffled \/ FilterNormal \/ Window \/ ClosePane

\* the windowing and the aggregation on events of one window arriving in any
\* order, interleaved with another key's
SpecShuffled == Init /\ [][NextShuffled]_vars

\* events_list in the order p
Reordered(events_list, p) == [i \in 1..Len(events_list) |-> events_list[p[i]]]

\* the aggregates WindowedAggregation.process yields for the group of the
\* last call taken in every order
AnyOrderAggregates ==
    LET i == Val(last.input)
    IN  {WindowedAggregationProcess(i.key, Reordered(i.events, p), i.window_start,
                                    last.out[1].aggregated_at).out[1] :
            p \in Permutations(1..Len(i.events))}

\* the aggregate with its average as the exact mean only
ExactMean(a) ==
    [a EXCEPT !.average_confidence = [num |-> @.num, den |-> @.den]]

\* C25 as stated: the aggregate of a key and window depends only on the set
\* of normal events that arrived before the close, not on their order: every
\* order gives the same total_events, event_type_counts, average_confidence
\* and high_confidence_events.
C25_AnyOrderSameAggregate ==
    (last.op = "aggregate") => AnyOrderAggregates = {last.out[1]}

\* C25: the group aggregated at the close is every normal event of the key
\* and window that arrived before it, whatever the event times, and every
\* order of the group gives the same total_events, event_type_counts and
\* high_confidence_events and an average_confidence that is the mean of the
\* same values; the float itself is summed in arrival order.
C25_AnyOrderSameUpToRounding ==
    (last.op = "aggregate") =>
        LET i  == Val(last.input)
            id == <<i.key, i.window_start>>
        IN  /\ {ExactMean(a) : a \in AnyOrderAggregates} = {ExactMean(last.out[1])}
            /\ \A k \in 1..Len(i.events) : PaneOf(i.events[k]) = id
            /\ Len(i.events) = Accepted(id)

\* two events of one window were aggregated after arriving the later one
\* first, with an event of another key windowed as well
C25_Witness ==
    /\ last.op = "aggregate"
    /\ Len(Val(last.input).events) = 2
    /\ Val(last.input).events[1].event.timestamp.t
           > Val(last.input).events[2].event.timestamp.t
    /\ last.out[1].total_events = 2
    /\ last.out[1].average_confidence.den = 2
    /\ \E k \in 1..cursor["window"] : KeyBySource(WindowingInput[k]) = "B"

-----------------------------------------------------------------------------
(* Events that arrive after their window has closed *)

\* the step drops an element because its pane has fired
DropsLate ==
    /\ Len(dropped') = Len(dropped) + 1
    /\ dropped'[Len(dropped')].why = "late"

\* C26: an event that arrives after its (source_id, window) has closed is
\* dropped and counted: the step that drops it changes no emitted aggregate,
\* adds none, leaves the closed pane empty, and increments a counter.
C26_LateDroppedAndCounted ==
    [][DropsLate =>
          /\ aggregations' = aggregations
          /\ panes' = panes
          /\ \E n \in CounterNames : counters'[n] = counters[n] + 1]_vars

-----------------------------------------------------------------------------
(* What a fault inside a rule costs *)

\* what rule i is charged: severity*0.2 if it returned errors, severity*0.1
\* if it returned warnings, in thousandths
RuleCharge(r) ==
    (IF r.errors # <<>> THEN r.severity * 20 ELSE 0)
    + (IF r.warnings # <<>> THEN r.severity * 10 ELSE 0)

\* C27: a fault inside the evaluation of a rule lowers the score by exactly
\* 0.1, whatever the rule's severity.  The timestamp rule faults at its first
\* comparison when the event's timestamp is offset-aware: the score is then
\* 1.0 less 0.3 for a schema failure, less 0.1 for the fault, less what the
\* four other rules are charged, clamped at 0.0.
C27_RuleFaultCostsFlatTenth ==
    (last.op = "validate" /\ Val(last.input).event.timestamp.aware) =>
        Val(last.verdict).score =
            ClampZero(1000
                - (IF SchemaErrors(EventDict(Val(last.input).event)) # <<>>
                   THEN 300 ELSE 0)
                - 100
                - SumSeq([i \in 1..4 |-> RuleCharge(RulesOfLast[i + 1])]))

-----------------------------------------------------------------------------
(* monitoring/metrics.py: increment_counter called by concurrent workers *)

\* increment_counter calls one worker makes
MaxIncrements == 2

\* the threads of a worker process, each running its own DoFn instance
WorkerIds == {"w1", "w2"}

\* the counters the workers increment
WorkerCounters == {"events_processed_success", "events_parse_failed"}

\* one MetricsCollector for every DoFn instance, as if it were created once
\* for the class
CollectorOf_Shared(w) == "w1"

\* The MetricsCollector worker w increments: setup() runs on each DoFn
\* instance and creates a collector of its own, and the runner calls one
\* instance from one thread at a time.
CollectorOf(w) == w

\* DoFn.setup(): self.metrics_collector = MetricsCollector(); self.counters
\* is a defaultdict(int).  calls counts the increment_counter calls the
\* worker has returned from.
SetupWorker ==
    \E w \in WorkerIds \ DOMAIN workers.threads :
        /\ workers' =
             [threads |->
                  workers.threads @@
                  (w :> [pc |-> "idle", key |-> "", loaded |-> 0,
                         calls |-> [k \in WorkerCounters |-> 0]]),
              collectors |->
                  IF CollectorOf(w) \in DOMAIN workers.collectors
                  THEN workers.collectors
                  ELSE workers.collectors @@
                       (CollectorOf(w) :> [k \in WorkerCounters |-> 0])]
        /\ UNCHANGED <<counters, parsed_events, enriched_events, filtered_events,
                       normal_events, anomaly_events, cursor, threshold, panes,
                       closed, aggregations, dropped, last, fed, monitor, delivery>>

\* self.counters[key] += value, first half: the thread reads self.counters[key]
LoadCounter ==
    \E w \in DOMAIN workers.threads, key \in WorkerCounters :
        /\ workers.threads[w].pc = "idle"
        /\ workers.threads[w].calls["events_processed_success"]
             + workers.threads[w].calls["events_parse_failed"] < MaxIncrements
        /\ workers' = [workers EXCEPT
               !.threads[w].pc = "loaded",
               !.threads[w].key = key,
               !.threads[w].loaded = workers.collectors[CollectorOf(w)][key]]
        /\ UNCHANGED <<counters, parsed_events, enriched_events, filtered_events,
                       normal_events, anomaly_events, cursor, threshold, panes,
                       closed, aggregations, dropped, last, fed, monitor, delivery>>

\* second half: the thread stores the value it read plus 1, and the call
\* returns; _maybe_export_metrics only logs, a collector made without
\* project_id has no client
StoreCounter ==
    \E w \in DOMAIN workers.threads :
        /\ workers.threads[w].pc = "loaded"
        /\ workers' = [workers EXCEPT
               !.collectors[CollectorOf(w)][workers.threads[w].key] =
                   workers.threads[w].loaded + 1,
               !.threads[w].pc = "idle",
               !.threads[w].calls[workers.threads[w].key] = @ + 1]
        /\ UNCHANGED <<counters, parsed_events, enriched_events, filtered_events,
                       normal_events, anomaly_events, cursor, threshold, panes,
                       closed, aggregations, dropped, last, fed, monitor, delivery>>

NextWorkers == SetupWorker \/ LoadCounter \/ StoreCounter

\* worker threads incrementing counters in any interleaving
SpecWorkers == Init /\ [][NextWorkers]_vars

RECURSIVE SumOver(_, _)
\* the sum of f[x] over the x in S
SumOver(f, S) ==
    IF S = {} THEN 0
    ELSE LET x == CHOOSE y \in S : TRUE IN f[x] + SumOver(f, S \ {x})

\* the increment_counter calls on counter key that the workers using
\* collector c have returned from
CallsOn(c, key) ==
    SumOver([w \in DOMAIN workers.threads |->
                IF CollectorOf(w) = c THEN workers.threads[w].calls[key] ELSE 0],
            DOMAIN workers.threads)

-----------------------------------------------------------------------------
(* One outcome for every message of the parse stage *)

\* ParseVideoEvent.process where validate_event returns quality_result
ProcessWith(element, quality_result, now) ==
    CASE element.kind = "undecodable" -> Outcome(<<>>, <<"events_processing_error">>)
      [] element.kind = "badjson"     -> Outcome(<<>>, <<"events_parse_failed">>)
      [] element.kind = "nonobject"   -> Outcome(<<>>, <<"events_processing_error">>)
      [] OTHER ->
           IF ~Constructs(Val(element.payload))
           THEN Outcome(<<>>, <<"events_validation_failed">>)
           ELSE QualityGate(VideoAnalyticsEvent(Val(element.payload)),
                            quality_result, now)

\* messages of every kind: the three that are no JSON object, objects that
\* fail construction, and objects that construct, without and with
\* processing_metadata
StageMessages ==
    {[kind |-> k, payload |-> None] : k \in {"undecodable", "badjson", "nonobject"}}
    \cup {[kind |-> "object", payload |-> Some(p)] :
            p \in {BasePayload,
                   [BasePayload EXCEPT !.processing_metadata = Some(NoMetadata)],
                   [BasePayload EXCEPT !.timestamp.form = "Z",
                                       !.processing_metadata = Some(NoMetadata)],
                   [BasePayload EXCEPT !.event_type = "unknown_type"],
                   [BasePayload EXCEPT !.confidence = Some(150)],
                   [BasePayload EXCEPT !.missing = TRUE]}}

\* one call of ParseVideoEvent.process, whatever the checker returns
Process ==
    /\ fed < MaxFeed
    /\ \E element \in StageMessages, r \in ValidationResults, now \in Clock :
         LET o == ProcessWith(element, r, now)
         IN /\ counters' = IncrementAll(counters, o.counted)
            /\ parsed_events' = parsed_events \o o.out
            /\ last' = [op |-> "process", input |-> Some(element),
                        verdict |-> Some(r), out |-> o.out, counted |-> o.counted]
    /\ fed' = fed + 1
    /\ UNCHANGED <<enriched_events, filtered_events, normal_events, anomaly_events,
                   cursor, threshold, panes, closed, aggregations, dropped,
                   monitor, workers, delivery>>

NextParseStage == Process

\* the parse stage on messages of every kind, with any result a checker may
\* return
SpecParseStage == Init /\ [][NextParseStage]_vars

\* the counters ParseVideoEvent.process increments
OutcomeCounters ==
    {"events_processed_success", "events_data_quality_failed", "events_parse_failed",
     "events_validation_failed", "events_processing_error"}

\* C29: processing one raw message in the parse stage has exactly one
\* outcome: the call yields at most one event and increments exactly one of
\* the five outcome counters, and it yields an event if and only if that
\* counter is events_processed_success.  No call raises: after any number of
\* messages the five counters add up to the messages processed and the
\* events yielded number events_processed_success.
C29_OneOutcomePerMessage ==
    /\ (last.op = "process") =>
          /\ Len(last.out) <= 1
          /\ Len(last.counted) = 1
          /\ last.counted[1] \in OutcomeCounters
          /\ (last.out # <<>>) <=> (last.counted = <<"events_processed_success">>)
    /\ SumOver(counters, OutcomeCounters) = fed
    /\ SumOver(counters, CounterNames \ OutcomeCounters) = 0
    /\ Len(parsed_events) = counters["events_processed_success"]

\* one message was yielded as an event and counted as a success, and another
\* was dropped where the stamping raised and counted as a processing error
C29_Witness ==
    /\ fed = 2
    /\ counters["events_processed_success"] = 1
    /\ counters["events_processing_error"] = 1
    /\ Len(parsed_events) = 1
    /\ last.op = "process"
    /\ last.out = <<>>
    /\ Val(last.input).kind = "object"
    /\ Val(last.verdict).is_valid

-----------------------------------------------------------------------------
(* pubsub/manager.py: the callback MessageProcessor hands to subscribe() *)

\* messages delivered to the callback in one behaviour
MaxMessages == 2

\* what message.data is: see ParseVideoEventProcess
MessageKinds == {"undecodable", "badjson", "nonobject", "object"}

\* what self.message_handler(message_data) does: returns a truthy value,
\* returns a falsy one, or raises an Exception
HandlerOutcomes == {"truthy", "falsy", "raises"}

\* the handler of lines 233-235 without its message.nack(): the error is
\* only logged
OnException_LogOnly(m) == [m EXCEPT !.pc = "done"]

\* except Exception: logging.error(...), message.nack()
OnException(m) == [m EXCEPT !.pc = "done", !.nacks = @ + 1]

\* the subscriber calls callback(message) on a thread of its pool
Deliver ==
    /\ Len(delivery) < MaxMessages
    /\ \E kind \in MessageKinds :
         delivery' = Append(delivery,
             [kind |-> kind, pc |-> "called", success |-> "", acks |-> 0, nacks |-> 0])
    /\ UNCHANGED <<counters, parsed_events, enriched_events, filtered_events,
                   normal_events, anomaly_events, cursor, threshold, panes, closed,
                   aggregations, dropped, last, fed, monitor, workers>>

\* lines 214-221: json.loads(message.data.decode('utf-8')) and the item
\* assignment of _pubsub_metadata, which raises TypeError on a JSON value that
\* is no object
Decode ==
    \E i \in 1..Len(delivery) :
        /\ delivery[i].pc = "called"
        /\ delivery' = [delivery EXCEPT ![i] =
               IF @.kind = "object" THEN [@ EXCEPT !.pc = "decoded"]
               ELSE OnException(@)]
        /\ UNCHANGED <<counters, parsed_events, enriched_events, filtered_events,
                       normal_events, anomaly_events, cursor, threshold, panes,
                       closed, aggregations, dropped, last, fed, monitor, workers>>

\* line 224: success = self.message_handler(message_data)
Handle ==
    \E i \in 1..Len(delivery), outcome \in HandlerOutcomes :
        /\ delivery[i].pc = "decoded"
        /\ delivery' = [delivery EXCEPT ![i] =
               IF outcome = "raises" THEN OnException([@ EXCEPT !.success = outcome])
               ELSE [@ EXCEPT !.pc = "handled", !.success = outcome]]
        /\ UNCHANGED <<counters, parsed_events, enriched_events, filtered_events,
                       normal_events, anomaly_events, cursor, threshold, panes,
                       closed, aggregations, dropped, last, fed, monitor, workers>>

\* lines 226-231: if success: message.ack() else: message.nack()
Respond ==
    \E i \in 1..Len(delivery) :
        /\ delivery[i].pc = "handled"
        /\ delivery' = [delivery EXCEPT ![i] =
               IF @.success = "truthy"
               THEN [@ EXCEPT !.pc = "done", !.acks = @ + 1]
               ELSE [@ EXCEPT !.pc = "done", !.nacks = @ + 1]]
        /\ UNCHANGED <<counters, parsed_events, enriched_events, filtered_events,
                       normal_events, anomaly_events, cursor, threshold, panes,
                       closed, aggregations, dropped, last, fed, monitor, workers>>

NextDelivery == Deliver \/ Decode \/ Handle \/ Respond

\* Callbacks running on the subscriber's threads.  A thread that has entered
\* the callback goes on to its end: the handler returns or raises.
SpecDelivery ==
    Init /\ [][NextDelivery]_vars /\ WF_vars(Decode \/ Handle \/ Respond)

\* message i has been answered as the callback should answer it
Answered(i) ==
    /\ Len(delivery) >= i
    /\ delivery[i].pc = "done"
    /\ delivery[i].acks + delivery[i].nacks = 1
    /\ delivery[i].acks = 1 <=>
           (delivery[i].kind = "object" /\ delivery[i].success = "truthy")

\* no message has more than one answer, and none has one before its callback
\* is through or a wrong one after
OneAnswer ==
    \A i \in 1..Len(delivery) :
        /\ delivery[i].acks + delivery[i].nacks <= 1
        /\ delivery[i].pc # "done" => delivery[i].acks + delivery[i].nacks = 0
        /\ delivery[i].pc = "done" => Answered(i)

\* C30: for every message delivered to the callback exactly one of ack and
\* nack is issued, exactly once: ack if and only if the message decoded and
\* the handler returned a truthy result, nack if the handler returned a falsy
\* one or if decoding or the handler raised; every delivered message is
\* answered in the end and none is both acked and nacked.
C30_ExactlyOneAnswer ==
    /\ []OneAnswer
    /\ \A i \in 1..MaxMessages : (Len(delivery) >= i) ~> Answered(i)

\* one message was acked after its handler returned a truthy result and the
\* other nacked after its handler raised
C30_Witness ==
    /\ Len(delivery) = 2
    /\ delivery[1].pc = "done" /\ delivery[1].acks = 1 /\ delivery[1].nacks = 0
    /\ delivery[1].success = "truthy"
    /\ delivery[2].pc = "done" /\ delivery[2].acks = 0 /\ delivery[2].nacks = 1
    /\ delivery[2].success = "raises"
=============================================================================
